---- MODULE Spec2Model ----
(***************************************************************************)
(* Model of the GithubBot ingestion pipeline: the POST /repos/analyze      *)
(* handler, the Celery worker running IngestionService.process_repository, *)
(* the DELETE /repos/analyze/{session_id} handler, the revoke signal and   *)
(* the vector-store collection shared by the ingests of one repository.    *)
(*                                                                         *)
(* All sessions of the model ingest the same repository URL, so they share *)
(* one repository identifier and one collection.  Chunk ids are            *)
(* chunk_{name}_{ordinal}; with one collection name an id is modelled by   *)
(* its ordinal.  The repository URL is a valid GitHub URL, and failures of  *)
(* the relational database are not modelled.  The session's repository     *)
(* name and owner, which no status depends on, are left out.               *)
(***************************************************************************)
EXTENDS Integers, Sequences, FiniteSets, TLC

\* ------------------------------------------------------------------ bounds
Sessions == {"s1", "s2"}

MaxDocs == 3

BatchSize == 2

MaxCancels == 1

MaxSeqCalls == 4

MaxFiles == 2

MaxChunksPerFile == 2

MaxPushes == 2

MaxRank == 3

FinalContextTopK == 3

MaxSearches == 2

MaxClears == 1

MaxUnits == 3

MaxTexts == 3

MaxRetries == 2

MaxRows == 4

\* the longest list of documents handed to _merge_small_documents
MaxMergeDocs == 3

\* --------------------------------------------------------------- constants
\* src/db/models.py: members of the TaskStatus enum
TaskStatus == {"PENDING", "PROCESSING", "SUCCESS", "FAILED", "CANCELLED"}

\* repositories.py line 190: the statuses cancel_analysis treats as final
CancelFinalStatesNone == {}

CancelFinalStates == {"SUCCESS", "FAILED", "CANCELLED"}

\* src/db/models.py lines 25-60: the columns of the AnalysisSession model
AnalysisSessionColumns ==
    {"id", "session_id", "task_id", "repository_url", "repository_name",
     "repository_owner", "status", "error_message", "total_files",
     "processed_files", "total_chunks", "indexed_chunks", "embedding_config",
     "created_at", "updated_at", "started_at", "completed_at"}

VARIABLES
    apiPc,       \* position of the analyze handler of each session
    session,     \* the AnalysisSession rows
    pc,          \* position of the ingest task of each session
    w,           \* locals of process_repository and what the run has done
    cancelPc,    \* position of the cancel_analysis handler of each session
    cancelResponse, \* what the cancel_analysis handler of each returned
    cancelCount, \* number of cancel requests received
    revoke,      \* the revoke signal of each task
    collExists,  \* does the repository's collection exist
    coll,        \* the collection: sequence of [id, owner]
    seen,        \* the statuses each row has held, in order
    seqCalls,    \* number of calls made by the sequential client
    issued,      \* the ids the sequential client has passed to the store
    repo,        \* the files of the repository, known once it is cloned
    queue,       \* the query tasks published to the broker, in order
    pushes,      \* number of calls of push_query_task
    execCount,   \* number of executions of process_query per task id
    queryLog,    \* number of rows of the query_logs table
    last,        \* the latest execution of process_query
    fusion,      \* the latest call of _hybrid_retrieval: its lists and result
    bm25_cache,  \* _bm25_cache and _documents_cache of the query_service
                 \* singleton, for the one repository identifier
    bm25_log,    \* the BM25 searches and DELETE /cache requests so far
    ident,       \* two URLs and the repository identifiers generated for them
    chunker,     \* the latest call of parse_with_ast: its input and chunks
    embedder,    \* the latest call of embed_documents_with_retry
    metadata,    \* the latest call of _save_metadata_batch and the table
    merger       \* the latest call of _merge_small_documents

\* the state of the query path
queryVars == <<queue, pushes, execCount, queryLog, last>>

\* the state of the calls of the retrieval and utility functions
callVars == <<fusion, bm25_cache, bm25_log, ident, chunker, embedder, metadata, merger>>

vars == <<apiPc, session, pc, w, cancelPc, cancelResponse, cancelCount, revoke,
          collExists, coll, seen, seqCalls, issued, repo, queryVars,
          callVars>>

\* ----------------------------------------------------------------- helpers
Min(a, b) == IF a < b THEN a ELSE b

CollIds == {coll[k].id : k \in DOMAIN coll}

OwnedBy(s) == Cardinality({k \in DOMAIN coll : coll[k].owner = s})

\* number of batches of range(0, total_docs, batch_size)
NumBatches(n) == (n + BatchSize - 1) \div BatchSize

\* len(documents[i:i + batch_size])
BatchLen(n, i) == Min(BatchSize, n - i)

NoRow == [exists |-> FALSE, status |-> "PENDING", task_id |-> FALSE,
          started_at |-> FALSE, completed_at |-> FALSE,
          error_message |-> "none", total_chunks |-> 0, indexed_chunks |-> 0,
          total_files |-> 0, processed_files |-> 0,
          repository_identifier |-> <<>>]

NewRow == [exists |-> TRUE, status |-> "PENDING", task_id |-> TRUE,
           started_at |-> FALSE, completed_at |-> FALSE,
           error_message |-> "none", total_chunks |-> 0, indexed_chunks |-> 0,
           total_files |-> 0, processed_files |-> 0,
           repository_identifier |-> <<>>]

InitLocals == [collection_exists |-> FALSE, count_at_check |-> 0,
               doc_count |-> 0, n |-> 0,
               emb |-> 0, i |-> 0, existing_count |-> 0,
               processed_docs |-> 0, error_occurred |-> FALSE,
               embedCalls |-> 0, cloned |-> FALSE, scanned |-> FALSE,
               writtenBatches |-> {}, failedBatches |-> {},
               failed |-> FALSE, ret |-> "none", gen |-> {},
               collided |-> FALSE, fatal |-> "none", meta |-> <<>>,
               create_ret |-> "none", create_exc |-> "none",
               progress |-> <<>>]

Running == {"config", "check", "reuse_count", "reuse_finish", "create_check",
            "create_call", "clone", "scan", "embed", "store_count",
            "store_add", "finish"}

\* the statuses a row has held: append on change
Track(sn, s, row) ==
    IF row.exists /\ (sn[s] = <<>> \/ sn[s][Len(sn[s])] # row.status)
    THEN [sn EXCEPT ![s] = Append(@, row.status)]
    ELSE sn

\* ------------------------------------------------------------- git_helper
\* A repository URL as the text scheme host / owner / name [.git] [/]
\* the URL every session of the model was submitted with
RepoUrl == [scheme |-> "https://", host |-> "github.com", owner |-> "o",
            name |-> "r", git |-> FALSE, slash |-> FALSE]

\* the same repository, written with the www host
WwwUrl == [RepoUrl EXCEPT !.host = "www.github.com"]

NoUrl == [scheme |-> "", host |-> "", owner |-> "", name |-> "",
          git |-> FALSE, slash |-> FALSE]

\* str.lower on the letters of the model
Lower(c) ==
    CASE c = "O" -> "o" [] c = "R" -> "r" [] c = "H" -> "h" [] c = "T" -> "t"
      [] c = "P" -> "p" [] c = "S" -> "s" [] OTHER -> c

\* the characters of the strings that the URLs of the model are made of
Chars(s) ==
    CASE s = "" -> <<>>
         [] s = "https://" -> <<"h", "t", "t", "p", "s", ":", "/", "/">>
         [] s = "http://" -> <<"h", "t", "t", "p", ":", "/", "/">>
         [] s = "HTTPS://" -> <<"H", "T", "T", "P", "S", ":", "/", "/">>
         [] s = "github.com" -> <<"g", "i", "t", "h", "u", "b", ".", "c", "o", "m">>
         [] s = "www.github.com" -> <<"w", "w", "w", ".", "g", "i", "t", "h", "u", "b", ".", "c", "o", "m">>
         [] s = "o" -> <<"o">>
         [] s = "O" -> <<"O">>
         [] s = "p" -> <<"p">>
         [] s = "r" -> <<"r">>
         [] s = "R" -> <<"R">>

\* the text of a URL, character by character
UrlChars(url) ==
    Chars(url.scheme) \o Chars(url.host) \o <<"/">> \o Chars(url.owner)
        \o <<"/">> \o Chars(url.name)
        \o (IF url.git THEN <<".", "g", "i", "t">> ELSE <<>>)
        \o (IF url.slash THEN <<"/">> ELSE <<>>)

\* str.lower
LowerText(text) == [i \in DOMAIN text |-> Lower(text[i])]

\* str.startswith
StartsWith(text, prefix) ==
    /\ Len(text) >= Len(prefix)
    /\ SubSeq(text, 1, Len(prefix)) = prefix

\* str.endswith
EndsWith(text, suffix) ==
    /\ Len(text) >= Len(suffix)
    /\ SubSeq(text, Len(text) - Len(suffix) + 1, Len(text)) = suffix

\* the number of characters of text before its first "/", from position i
RECURSIVE SegmentLen(_, _)
SegmentLen(text, i) ==
    IF i > Len(text) \/ text[i] = "/" THEN 0
    ELSE 1 + SegmentLen(text, i + 1)

\* line 47: the non-empty parts of path.strip('/').split('/')
RECURSIVE PathParts(_)
PathParts(path) ==
    IF path = <<>> THEN <<>>
    ELSE LET n == SegmentLen(path, 1)
             rest == SubSeq(path, n + 2, Len(path))
         IN IF n = 0 THEN PathParts(rest)
            ELSE <<SubSeq(path, 1, n)>> \o PathParts(rest)

\* urlparse(url).path of a text that starts with http:// or https://: what
\* follows the network location, which ends at the first "/" after the "//"
UrlPath(text) ==
    LET after == IF StartsWith(text, Chars("https://"))
                 THEN SubSeq(text, 9, Len(text))
                 ELSE SubSeq(text, 8, Len(text))
        n == SegmentLen(after, 1)
    IN SubSeq(after, n + 1, Len(after))

\* a name that keeps its .git suffix
KeepGitSuffix(repo_name) == repo_name

\* lines 56-57: remove the .git suffix
StripGitSuffix(repo_name) ==
    IF EndsWith(repo_name, <<".", "g", "i", "t">>)
    THEN SubSeq(repo_name, 1, Len(repo_name) - 4)
    ELSE repo_name

\* line 64: hashlib.sha256(text).hexdigest()[:8], for the owner/name texts
\* of the model
Sha256Hex8(text) ==
    CASE text = <<"o", "/", "r">> -> <<"9", "6", "4", "5", "8", "4", "1", "9">>
      [] text = <<"p", "/", "r">> -> <<"d", "a", "2", "9", "a", "2", "9", "5">>
      [] text = <<"o", "/", "r", ".", "g", "i", "t">> -> <<"9", "9", "b", "5", "d", "5", "9", "0">>
      [] text = <<"p", "/", "r", ".", "g", "i", "t">> -> <<"4", "3", "4", "f", "b", "c", "d", "6">>

\* GitHelper.generate_repository_identifier lines 38-70 on the text of url
\* (which has no surrounding whitespace): the text is lowered, https:// is
\* put before a text without http:// or https://, the path is split on "/",
\* its first two parts are owner and name, .git is cut from the name; the
\* identifier is github_{owner}_{name}_{hash}.  <<>> stands for the
\* ValueError of a path with fewer than two parts.
generate_repository_identifier(url) ==
    LET lowered == LowerText(UrlChars(url))
        text == IF StartsWith(lowered, Chars("http://"))
                     \/ StartsWith(lowered, Chars("https://"))
                THEN lowered
                ELSE Chars("https://") \o lowered
        path_parts == PathParts(UrlPath(text))
    IN IF Len(path_parts) < 2 THEN <<>>
       ELSE LET owner == path_parts[1]
                repo_name == StripGitSuffix(path_parts[2])
            IN <<"g", "i", "t", "h", "u", "b", "_">> \o owner \o <<"_">>
                   \o repo_name \o <<"_">>
                   \o Sha256Hex8(owner \o <<"/">> \o repo_name)

\* ------------------------------------------------ ingestion_service helpers
\* IngestionService._update_session_status: writes only if the row is found
update_session_status(row, status, error_message, started_at, completed_at) ==
    IF row.exists
    THEN [row EXCEPT !.status = status,
                     !.error_message = IF error_message # "none"
                                       THEN error_message ELSE @,
                     !.started_at = IF started_at THEN TRUE ELSE @,
                     !.completed_at = IF completed_at THEN TRUE ELSE @]
    ELSE row

\* IngestionService._update_session_stats(total_chunks = ...)
update_session_total_chunks(row, n) ==
    IF row.exists THEN [row EXCEPT !.total_chunks = n] ELSE row

\* IngestionService._update_session_stats(total_files = ...)
update_session_total_files(row, n) ==
    IF row.exists THEN [row EXCEPT !.total_files = n] ELSE row

\* IngestionService._update_session_stats(processed_files = ...)
update_session_processed_files(row, n) ==
    IF row.exists THEN [row EXCEPT !.processed_files = n] ELSE row

\* IngestionService._update_session_stats(indexed_chunks = ...)
update_session_indexed_chunks(row, n) ==
    IF row.exists THEN [row EXCEPT !.indexed_chunks = n] ELSE row

\* IngestionService._update_session_repo_info: the attribute is assigned on
\* the row object; it reaches the table only if the model maps the column
update_session_repo_info(row, repo_identifier) ==
    IF row.exists /\ "repository_identifier" \in AnalysisSessionColumns
    THEN [row EXCEPT !.repository_identifier = repo_identifier]
    ELSE row

\* one file as the scanner yields it, by what reading and splitting it gives
TextFile(k) == [kind |-> "text", chunks |-> k]

\* read_file_content returns nothing
EmptyFile == [kind |-> "empty", chunks |-> 0]

\* the splitter returns no document
NoDocsFile == [kind |-> "nodocs", chunks |-> 0]

\* reading or parsing the file raises
RaisingFile == [kind |-> "raises", chunks |-> 0]

Files == {TextFile(k) : k \in 1 .. MaxChunksPerFile}
             \cup {EmptyFile, NoDocsFile, RaisingFile}

RECURSIVE ChunksOf(_)
ChunksOf(fs) == IF fs = <<>> THEN 0 ELSE Head(fs).chunks + ChunksOf(Tail(fs))

\* the repositories of the model: at most MaxFiles files, MaxDocs chunks
Repos == {fs \in UNION {[1 .. k -> Files] : k \in 0 .. MaxFiles} :
             ChunksOf(fs) <= MaxDocs}

\* the repositories whose files are all read and split into chunks
ReadableRepos ==
    {fs \in Repos : \A f \in DOMAIN fs : fs[f].kind = "text"}

NoRepo == [known |-> FALSE, files |-> <<>>]

\* the counters and the metadata list before the first file
NoFilesDone == [total_chunks |-> 0, processed_files |-> 0,
                all_file_metadata |-> <<>>]

\* the FileMetadata row of file number f
FileRow(f, is_processed, has_error, chunk_count) ==
    [file |-> f, is_processed |-> is_processed,
     error_message |-> has_error, chunk_count |-> chunk_count]

\* _process_repository_files lines 246-328, one file: an empty file leaves
\* the loop body through continue, before the row is appended; a file that
\* raises gets a failed row and the loop goes on
process_file(file, f, acc) ==
    CASE file.kind = "empty" -> acc
      [] file.kind = "text" ->
            [total_chunks |-> acc.total_chunks + file.chunks,
             processed_files |-> acc.processed_files + 1,
             all_file_metadata |-> Append(acc.all_file_metadata,
                 FileRow(f, "success", FALSE, file.chunks))]
      [] file.kind = "nodocs" ->
            [acc EXCEPT !.all_file_metadata =
                 Append(@, FileRow(f, "skipped", TRUE, 0))]
      [] file.kind = "raises" ->
            [acc EXCEPT !.all_file_metadata =
                 Append(@, FileRow(f, "failed", TRUE, 0))]

\* _process_repository_files lines 246-350: the loop over the files from
\* number f on, and the rows it saves
RECURSIVE process_repository_files(_, _, _)
process_repository_files(files, f, acc) ==
    IF f > Len(files)
    THEN acc
    ELSE process_repository_files(files, f + 1,
                                  process_file(files[f], f, acc))

\* _update_task_progress lines 646-659: the values are reported in order
\* through update_state
update_task_progress(reported, values) == reported \o values

\* lines 265-267: 35 + int((file_index / total_files) * 35) for each file
FileProgress(total_files) ==
    [file_index \in 1 .. total_files |->
        35 + ((file_index * 35) \div total_files)]

\* lines 433-434: 75 + int((processed_docs / total_docs) * 20)
StoreProgress(processed_docs, total_docs) ==
    75 + ((processed_docs * 20) \div total_docs)

FailRunSilently(s) ==
    /\ pc' = [pc EXCEPT ![s] = "done"]
    /\ UNCHANGED <<session, seen>>

\* the except branch of process_repository: mark FAILED, return False.  The
\* text of the exception is not empty.
FailRun(s) ==
    /\ session' = [session EXCEPT ![s] =
           update_session_status(@, "FAILED", "error", FALSE, TRUE)]
    /\ seen' = Track(seen, s, session'[s])
    /\ pc' = [pc EXCEPT ![s] = "done"]

\* ------------------------------------------------------- vector_store
DocIdFromZero(existing_count, i, j) == i + j

\* VectorStore.add_documents_to_collection: id of document j of the batch
\* that starts at offset i, given the count read at the start of the call
DocId(existing_count, i, j) == existing_count + i + j

\* the ids of one batch of a call
BatchIds(existing_count, i, len) ==
    {DocId(existing_count, i, j) : j \in 0 .. (len - 1)}

\* the records of one batch, in order
BatchRecords(existing_count, i, len, s) ==
    [j \in 1 .. len |-> [id |-> DocId(existing_count, i, j - 1), owner |-> s]]

\* collection.add where the store skips the ids it already holds
SelectFresh(recs, ids) == SelectSeq(recs, LAMBDA r : r.id \notin ids)

\* --------------------------------------------------- POST /repos/analyze
\* analyze, lines 37-41: process_repository_task.delay(...)
AnalyzeEnqueue(s) ==
    /\ apiPc[s] = "new"
    /\ apiPc' = [apiPc EXCEPT ![s] = "enqueued"]
    /\ pc' = [pc EXCEPT ![s] = "queued"]
    /\ UNCHANGED <<session, w, cancelPc, cancelResponse, cancelCount, revoke, collExists,
                   coll, seen, seqCalls, issued, repo, queryVars, callVars>>

\* analyze, lines 46-57: add the AnalysisSession row (PENDING) and commit
AnalyzeCommit(s) ==
    /\ apiPc[s] = "enqueued"
    /\ apiPc' = [apiPc EXCEPT ![s] = "committed"]
    /\ session' = [session EXCEPT ![s] = NewRow]
    /\ seen' = Track(seen, s, session'[s])
    /\ UNCHANGED <<pc, w, cancelPc, cancelResponse, cancelCount, revoke, collExists, coll,
                   seqCalls, issued, repo, queryVars, callVars>>

\* ------------------------------------------------- process_repository
\* tasks.py line 26 and lines 60-66: the task starts and reports 0, the
\* session is set to PROCESSING, 5 is reported
Start(s) ==
    /\ pc[s] = "queued"
    /\ session' = [session EXCEPT ![s] =
           update_session_status(@, "PROCESSING", "none", TRUE, FALSE)]
    /\ seen' = Track(seen, s, session'[s])
    /\ w' = [w EXCEPT ![s].progress = update_task_progress(@, <<0, 5>>)]
    /\ pc' = [pc EXCEPT ![s] = "config"]
    /\ UNCHANGED <<apiPc, cancelPc, cancelResponse, cancelCount, revoke, collExists, coll,
                   seqCalls, issued, repo, queryVars, callVars>>

\* lines 68-80: EmbeddingConfig.from_dict and get_embedding_model
LoadConfig(s) ==
    /\ pc[s] = "config"
    /\ \E ok \in BOOLEAN :
         IF ok
         THEN /\ pc' = [pc EXCEPT ![s] = "check"]
              /\ w' = [w EXCEPT ![s].progress =
                                    update_task_progress(@, <<10, 15>>)]
              /\ UNCHANGED <<session, seen>>
         ELSE /\ FailRun(s)
              /\ w' = [w EXCEPT ![s].failed = TRUE, ![s].ret = "false",
                                ![s].fatal = "config"]
    /\ UNCHANGED <<apiPc, cancelPc, cancelResponse, cancelCount, revoke, collExists, coll,
                   seqCalls, issued, repo, queryVars, callVars>>

ReuseBranchNever(exists) == "create_check"

\* the branch of line 90 on the result of the existence check
ReuseBranch(exists) == IF exists THEN "reuse_count" ELSE "create_check"

\* VectorStore.check_repository_collection_exists is called by the service
\* and is not in vector_store.py: collection_exists for the identifier
check_repository_collection_exists == collExists

\* VectorStore.count_documents_in_repository_collection, likewise: count
count_documents_in_repository_collection == Len(coll)

\* lines 85-90: get_vector_store, which raises when the store cannot be
\* reached, then check_repository_collection_exists and the branch on it
CheckCollection(s) ==
    /\ pc[s] = "check"
    /\ \E ok \in BOOLEAN :
         IF ok
         THEN /\ w' = [w EXCEPT ![s].collection_exists =
                                  check_repository_collection_exists,
                              ![s].count_at_check = Len(coll),
                              ![s].progress =
                                  IF check_repository_collection_exists
                                  THEN update_task_progress(@, <<20>>)
                                  ELSE @]
              /\ pc' = [pc EXCEPT ![s] =
                         ReuseBranch(check_repository_collection_exists)]
              /\ UNCHANGED <<session, seen>>
         ELSE /\ FailRun(s)
              /\ w' = [w EXCEPT ![s].failed = TRUE, ![s].ret = "false",
                                ![s].fatal = "collection"]
    /\ UNCHANGED <<apiPc, cancelPc, cancelResponse, cancelCount, revoke, collExists, coll,
                   seqCalls, issued, repo, queryVars, callVars>>

\* lines 92-104: the repository info of the session, then
\* count_documents_in_repository_collection
ReuseCount(s) ==
    /\ pc[s] = "reuse_count"
    /\ session' = [session EXCEPT ![s] =
           update_session_repo_info(@,
               generate_repository_identifier(RepoUrl))]
    /\ w' = [w EXCEPT ![s].doc_count =
                         count_documents_in_repository_collection]
    /\ pc' = [pc EXCEPT ![s] = "reuse_finish"]
    /\ UNCHANGED <<apiPc, cancelPc, cancelResponse, cancelCount, revoke, collExists,
                   coll, seen, seqCalls, issued, repo, queryVars, callVars>>

\* lines 106-114: mark SUCCESS with completed_at, return True
ReuseFinish(s) ==
    /\ pc[s] = "reuse_finish"
    /\ session' = [session EXCEPT ![s] =
           update_session_status(@, "SUCCESS", "none", FALSE, TRUE)]
    /\ seen' = Track(seen, s, session'[s])
    /\ w' = [w EXCEPT ![s].ret = "true",
                      ![s].progress = update_task_progress(@, <<100>>)]
    /\ pc' = [pc EXCEPT ![s] = "done"]
    /\ UNCHANGED <<apiPc, cancelPc, cancelResponse, cancelCount, revoke, collExists, coll,
                   seqCalls, issued, repo, queryVars, callVars>>

\* line 117, create_collection lines 145-147: the existence check; the call
\* returns True for a collection that exists
CreateCheck(s) ==
    /\ pc[s] = "create_check"
    /\ pc' = [pc EXCEPT ![s] = IF collExists THEN "clone" ELSE "create_call"]
    /\ w' = [w EXCEPT ![s].create_ret = IF collExists THEN "true" ELSE @,
                      ![s].progress = IF collExists
                                      THEN update_task_progress(@, <<20>>)
                                      ELSE @]
    /\ UNCHANGED <<apiPc, session, cancelPc, cancelResponse, cancelCount, revoke,
                   collExists, coll, seen, seqCalls, issued, repo, queryVars, callVars>>

\* create_collection lines 165-178: client.create_collection; the store
\* refuses a name that exists, and any exception makes the call return
\* False (create_exc tells the two exceptions apart)
CreateCall(s) ==
    /\ pc[s] = "create_call"
    /\ \E ok \in BOOLEAN :
         IF ok /\ ~collExists
         THEN /\ collExists' = TRUE
              /\ pc' = [pc EXCEPT ![s] = "clone"]
              /\ w' = [w EXCEPT ![s].create_ret = "true",
                                ![s].progress =
                                    update_task_progress(@, <<20>>)]
              /\ UNCHANGED <<session, seen>>
         ELSE /\ FailRun(s)
              /\ w' = [w EXCEPT ![s].failed = TRUE, ![s].ret = "false",
                                ![s].fatal = "collection",
                                ![s].create_ret = "false",
                                ![s].create_exc = IF ok THEN "exists"
                                                        ELSE "unavailable"]
              /\ UNCHANGED collExists
    /\ UNCHANGED <<apiPc, cancelPc, cancelResponse, cancelCount, revoke, coll, seqCalls,
                   issued, repo, queryVars, callVars>>

\* lines 126-141: clone_repository and the repository info of the session.
\* The clone finds the files that the repository is known to hold; a
\* repository not known before is one of readable files, and later clones
\* see the same files.
Clone(s) ==
    /\ pc[s] = "clone"
    /\ \E ok \in BOOLEAN :
         IF ok
         THEN /\ w' = [w EXCEPT ![s].cloned = TRUE,
                                ![s].progress =
                                    update_task_progress(@, <<30, 35>>)]
              /\ pc' = [pc EXCEPT ![s] = "scan"]
              /\ IF repo.known
                 THEN UNCHANGED repo
                 ELSE \E fs \in ReadableRepos :
                          repo' = [known |-> TRUE, files |-> fs]
              /\ session' = [session EXCEPT ![s] =
                     update_session_repo_info(@,
                         generate_repository_identifier(RepoUrl))]
              /\ UNCHANGED seen
         ELSE /\ FailRun(s)
              /\ w' = [w EXCEPT ![s].failed = TRUE, ![s].ret = "false",
                                ![s].fatal = "clone"]
              /\ UNCHANGED repo
    /\ UNCHANGED <<apiPc, cancelPc, cancelResponse, cancelCount, revoke, collExists, coll,
                   seqCalls, issued, queryVars, callVars>>

\* lines 143-155 and _process_repository_files: total_files is stored, the
\* loop goes through the files, saves the metadata rows, and processed_files
\* and total_chunks are stored; or the phase
\* raises outside the per-file try (the scanner fails), which leaves
\* all_documents empty and the collected rows unsaved
ProcessFiles(s) ==
    /\ pc[s] = "scan"
    /\ \/ LET r == process_repository_files(repo.files, 1, NoFilesDone)
          IN /\ w' = [w EXCEPT ![s].scanned = TRUE,
                               ![s].n = r.total_chunks,
                               ![s].meta = r.all_file_metadata,
                               ![s].progress = update_task_progress(@,
                                   Append(FileProgress(Len(repo.files)),
                                          70))]
             /\ session' = [session EXCEPT ![s] =
                    update_session_total_chunks(
                        update_session_processed_files(
                            update_session_total_files(@, Len(repo.files)),
                            r.processed_files),
                        r.total_chunks)]
             /\ pc' = [pc EXCEPT ![s] = IF r.total_chunks > 0
                                        THEN "embed" ELSE "finish"]
       \/ /\ w' = [w EXCEPT ![s].scanned = TRUE, ![s].error_occurred = TRUE,
                            ![s].failed = TRUE]
          /\ pc' = [pc EXCEPT ![s] = "finish"]
          /\ UNCHANGED session
    /\ UNCHANGED <<apiPc, cancelPc, cancelResponse, cancelCount, revoke, collExists, coll,
                   seen, seqCalls, issued, repo, queryVars, callVars>>

\* where the embedding phase goes after batch b of nb failed
AfterEmbedFailure(b, nb) == "finish"

\* _vectorize_and_store_repository_documents_async lines 404-405 with
\* embed_documents_with_retry lines 105-108: one batch is embedded; a batch
\* that fails after its retries raises out of the whole phase
EmbedBatch(s) ==
    /\ pc[s] = "embed"
    /\ LET b == w[s].emb + 1
           nb == NumBatches(w[s].n)
       IN \E ok \in BOOLEAN :
            IF ok
            THEN /\ w' = [w EXCEPT ![s].emb = b,
                                   ![s].embedCalls = @ + 1]
                 /\ pc' = [pc EXCEPT ![s] =
                        IF b = nb THEN "store_count" ELSE "embed"]
            ELSE /\ w' = [w EXCEPT ![s].embedCalls = @ + 1,
                                   ![s].failedBatches = @ \cup {b},
                                   ![s].error_occurred = TRUE,
                                   ![s].failed = TRUE]
                 /\ pc' = [pc EXCEPT ![s] = AfterEmbedFailure(b, nb)]
    /\ UNCHANGED <<apiPc, session, cancelPc, cancelResponse, cancelCount, revoke, collExists,
                   coll, seen, seqCalls, issued, repo, queryVars, callVars>>

\* lines 413-428, add_documents lines 226-232: the call reads the count
StoreCount(s) ==
    /\ pc[s] = "store_count"
    /\ w' = [w EXCEPT ![s].existing_count = Len(coll)]
    /\ pc' = [pc EXCEPT ![s] = "store_add"]
    /\ UNCHANGED <<apiPc, session, cancelPc, cancelResponse, cancelCount, revoke, collExists,
                   coll, seen, seqCalls, issued, repo, queryVars, callVars>>

\* add_documents lines 243-286 and lines 430-442 of the loop: the batch is
\* added under the generated ids; success updates indexed_chunks and failure
\* raises out of the phase.  The store accepts the add ("ok": ids it already
\* holds are skipped), rejects it because an id is already held ("reject"),
\* or fails for another reason ("fail").
StoreAdd(s) ==
    /\ pc[s] = "store_add"
    /\ LET i == w[s].i
           len == BatchLen(w[s].n, i)
           b == (i \div BatchSize) + 1
           ids == BatchIds(w[s].existing_count, 0, len)
           recs == BatchRecords(w[s].existing_count, 0, len, s)
           dup == ids \cap CollIds # {}
       IN \E out \in {"ok", "reject", "fail"} :
            /\ out = "reject" => dup
            /\ IF out = "ok"
               THEN /\ coll' = coll \o SelectFresh(recs, CollIds)
                    /\ w' = [w EXCEPT ![s].i = i + BatchSize,
                                 ![s].processed_docs = @ + len,
                                 ![s].writtenBatches = @ \cup {b},
                                 ![s].gen = @ \cup ids,
                                 ![s].collided = @ \/ dup,
                                 ![s].progress = update_task_progress(@,
                                     <<StoreProgress(
                                           w[s].processed_docs + len,
                                           w[s].n)>>)]
                    /\ session' = [session EXCEPT ![s] =
                           update_session_indexed_chunks(@,
                               w[s].processed_docs + len)]
                    /\ pc' = [pc EXCEPT ![s] =
                           IF i + BatchSize < w[s].n
                           THEN "store_count" ELSE "finish"]
               ELSE /\ w' = [w EXCEPT ![s].failedBatches = @ \cup {b},
                                 ![s].error_occurred = TRUE,
                                 ![s].failed = TRUE,
                                 ![s].gen = IF out = "reject"
                                            THEN @ \cup ids ELSE @,
                                 ![s].collided = @ \/ (out = "reject")]
                    /\ pc' = [pc EXCEPT ![s] = "finish"]
                    /\ UNCHANGED <<coll, session>>
    /\ UNCHANGED <<apiPc, cancelPc, cancelResponse, cancelCount, revoke, collExists, seen,
                   seqCalls, issued, repo, queryVars, callVars>>

\* lines 176-177 and 188-190: the status the run ends with.  The attribute
\* TaskStatus.PARTIAL_SUCCESS is looked up in the enum; a member the enum
\* does not have raises, and the except branch of line 197 marks FAILED.
FinalStatus(error_occurred) ==
    IF error_occurred
    THEN IF "PARTIAL_SUCCESS" \in TaskStatus THEN "PARTIAL_SUCCESS"
                                              ELSE "FAILED"
    ELSE "SUCCESS"

\* lines 173-208: 95 is reported, the final status is written, and 100 is
\* reported unless the status write raised; the return value
Finish(s) ==
    /\ pc[s] = "finish"
    /\ LET st == FinalStatus(w[s].error_occurred)
       IN /\ session' = [session EXCEPT ![s] =
                 update_session_status(@, st,
                     IF st = "SUCCESS" THEN "none" ELSE "error", FALSE, TRUE)]
          /\ w' = [w EXCEPT ![s].ret = IF st = "FAILED" THEN "false"
                                                         ELSE "true",
                            ![s].progress = update_task_progress(@,
                                IF st = "FAILED" THEN <<95>>
                                                 ELSE <<95, 100>>)]
    /\ seen' = Track(seen, s, session'[s])
    /\ pc' = [pc EXCEPT ![s] = "done"]
    /\ UNCHANGED <<apiPc, cancelPc, cancelResponse, cancelCount, revoke, collExists, coll,
                   seqCalls, issued, repo, queryVars, callVars>>

\* --------------------------------------- DELETE /repos/analyze/{session_id}
\* cancel_analysis lines 181-202: read the row, answer 404 if there is none,
\* return the status of the row on a final status
CancelRead(s) ==
    /\ cancelPc[s] = "idle"
    /\ cancelCount < MaxCancels
    /\ cancelCount' = cancelCount + 1
    /\ cancelPc' = [cancelPc EXCEPT ![s] =
           IF ~session[s].exists THEN "notfound"
           ELSE IF session[s].status \in CancelFinalStates THEN "final"
           ELSE "read"]
    /\ cancelResponse' = [cancelResponse EXCEPT ![s] =
           IF ~session[s].exists THEN "404"
           ELSE IF session[s].status \in CancelFinalStates
                THEN session[s].status
           ELSE @]
    /\ UNCHANGED <<apiPc, session, pc, w, revoke, collExists, coll, seen,
                   seqCalls, issued, repo, queryVars, callVars>>

\* lines 204-206 and TaskQueue.cancel_repository_task: revoke(terminate=True)
\* is sent, or sending raises and the handler answers 500
CancelRevoke(s) ==
    /\ cancelPc[s] = "read"
    /\ \E ok \in BOOLEAN :
         IF ok
         THEN /\ revoke' = [revoke EXCEPT ![s] = "sent"]
              /\ cancelPc' = [cancelPc EXCEPT ![s] = "revoked"]
         ELSE /\ cancelPc' = [cancelPc EXCEPT ![s] = "error"]
              /\ UNCHANGED revoke
    /\ cancelResponse' = [cancelResponse EXCEPT ![s] =
           IF cancelPc'[s] = "error" THEN "500" ELSE @]
    /\ UNCHANGED <<apiPc, session, pc, w, cancelCount, collExists, coll, seen,
                   seqCalls, issued, repo, queryVars, callVars>>

\* lines 208-213: the row loaded at the start is set to CANCELLED and
\* committed
CancelCommit(s) ==
    /\ cancelPc[s] = "revoked"
    /\ session' = [session EXCEPT ![s] =
           [@ EXCEPT !.status = "CANCELLED", !.completed_at = TRUE,
                     !.error_message = "cancelled"]]
    /\ seen' = Track(seen, s, session'[s])
    /\ cancelPc' = [cancelPc EXCEPT ![s] = "done"]
    /\ cancelResponse' = [cancelResponse EXCEPT ![s] = "cancelled"]
    /\ UNCHANGED <<apiPc, pc, w, cancelCount, revoke, collExists, coll,
                   seqCalls, issued, repo, queryVars, callVars>>

\* the worker receives the revoke: a task not yet started is discarded, a
\* running task is terminated, a finished one is left alone
RevokeDeliver(s) ==
    /\ revoke[s] = "sent"
    /\ revoke' = [revoke EXCEPT ![s] = "delivered"]
    /\ pc' = [pc EXCEPT ![s] =
           IF pc[s] = "queued" THEN "discarded"
           ELSE IF pc[s] \in Running THEN "killed"
           ELSE @]
    /\ UNCHANGED <<apiPc, session, w, cancelPc, cancelResponse, cancelCount, collExists, coll,
                   seen, seqCalls, issued, repo, queryVars, callVars>>

\* ---------------------------------------------------------- query path
\* the ids of the query tasks
TaskIds == {"q1", "q2"}

\* the text of the session_id field of a QueryRequest: a session id, or a
\* repository URL
SessionIdText(id) == [kind |-> "id", id |-> id, url |-> NoUrl]

UrlText(url) == [kind |-> "url", id |-> "", url |-> url]

SessionIdTexts ==
    {SessionIdText(id) : id \in Sessions \cup {"nosuch"}}
        \cup {UrlText(RepoUrl), UrlText(WwwUrl)}

\* schemas/repository.py lines 75-79: the QueryRequest, llm_config given
\* or not
QueryRequests ==
    [session_id : SessionIdTexts, generation_mode : {"service", "plugin"},
     llm_config : BOOLEAN]

\* QueryService._is_likely_repository_url lines 210-219: the three patterns,
\* matched as written (case-sensitive, from the start of the text)
is_likely_repository_url(text) ==
    /\ text.kind = "url"
    /\ \/ text.url.scheme \in {"https://", "http://"}
             /\ text.url.host = "github.com"
       \/ text.url.scheme = "" /\ text.url.host = "github.com"
       \/ text.url.git /\ ~text.url.slash

SessionUsableAnyStatus(row) == row.exists

\* line 171 and lines 183-186: the session is found and its status is SUCCESS
SessionUsable(row) == row.exists /\ row.status = "SUCCESS"

NotValidated == [kind |-> "none", identifier |-> <<>>]

\* QueryService._validate_session_or_repository lines 166-197.  The filter
\* of line 184 reads the class attribute AnalysisSession.repository_identifier
\* and raises when the model has no such column.
validate_session_or_repository(text) ==
    IF text.kind = "id" /\ text.id \in Sessions
           /\ SessionUsable(session[text.id])
    THEN [kind |-> "ok",
          identifier |-> generate_repository_identifier(RepoUrl)]
    ELSE IF is_likely_repository_url(text)
    THEN IF "repository_identifier" \notin AnalysisSessionColumns
         THEN [kind |-> "raise", identifier |-> <<>>]
         ELSE IF \E s \in Sessions :
                    /\ SessionUsable(session[s])
                    /\ session[s].repository_identifier =
                           generate_repository_identifier(text.url)
              THEN [kind |-> "ok",
                    identifier |-> generate_repository_identifier(text.url)]
              ELSE NotValidated
    ELSE NotValidated

\* the outcomes of the LLM for one call of _generate_answer
LlmOutcomes == {"ok", "load_fails", "invoke_fails"}

\* QueryService.query lines 84-149: the QueryResponse, with what the call
\* did.  answer is "null" or names the text that the field holds.
query(request, retrieval_ok, llm) ==
    LET v == validate_session_or_repository(request.session_id)
        generate == request.generation_mode = "service" /\ request.llm_config
    IN CASE v.kind = "raise" ->
              [answer |-> "query_failed_text", retrieved_context |-> FALSE,
               outcome |-> "validation_raised", identifier |-> <<>>,
               retrieved |-> FALSE, llm_invoked |-> FALSE, logged |-> FALSE]
         [] v.kind = "none" ->
              [answer |-> "session_invalid_text", retrieved_context |-> FALSE,
               outcome |-> "validation_failed", identifier |-> <<>>,
               retrieved |-> FALSE, llm_invoked |-> FALSE, logged |-> FALSE]
         [] v.kind = "ok" /\ ~retrieval_ok ->
              [answer |-> "query_failed_text", retrieved_context |-> FALSE,
               outcome |-> "retrieval_raised", identifier |-> v.identifier,
               retrieved |-> TRUE, llm_invoked |-> FALSE, logged |-> FALSE]
         [] v.kind = "ok" /\ retrieval_ok /\ generate ->
              [answer |-> IF llm = "ok" THEN "llm_answer"
                                       ELSE "generation_failed_text",
               retrieved_context |-> TRUE,
               outcome |-> IF llm = "ok" THEN "answered"
                                        ELSE "generation_failed",
               identifier |-> v.identifier, retrieved |-> TRUE,
               llm_invoked |-> llm # "load_fails", logged |-> TRUE]
         [] v.kind = "ok" /\ retrieval_ok /\ ~generate ->
              [answer |-> "null", retrieved_context |-> TRUE,
               outcome |-> "retrieved_only", identifier |-> v.identifier,
               retrieved |-> TRUE, llm_invoked |-> FALSE, logged |-> TRUE]

NoResponse == [answer |-> "null", retrieved_context |-> FALSE,
               outcome |-> "none", identifier |-> <<>>, retrieved |-> FALSE,
               llm_invoked |-> FALSE, logged |-> FALSE]

NoExecution ==
    [task_id |-> "none",
     request |-> [session_id |-> SessionIdText("nosuch"),
                  generation_mode |-> "plugin", llm_config |-> FALSE],
     result |-> [success |-> FALSE, error |-> "none", session_id |-> "none",
                 data |-> NoResponse]]

InitQueryVars ==
    /\ queue = <<>>
    /\ pushes = 0
    /\ execCount = [id \in TaskIds |-> 0]
    /\ queryLog = 0
    /\ last = NoExecution

\* TaskQueue.push_query_task lines 19-31: apply_async publishes one message
\* under task_id = session_id; nothing is looked up before publishing
push_query_task(id, request) ==
    /\ pushes < MaxPushes
    /\ pushes' = pushes + 1
    /\ queue' = Append(queue, [task_id |-> id, request |-> request])
    /\ UNCHANGED <<apiPc, session, pc, w, cancelPc, cancelResponse, cancelCount, revoke,
                   collExists, coll, seen, seqCalls, issued, repo, execCount,
                   queryLog, last, callVars>>

\* worker/tasks.py lines 63-84: the worker takes a message and runs
\* process_query; query returns a response on every path, so the task ends
\* in the success branch
process_query ==
    /\ queue # <<>>
    /\ LET msg == Head(queue)
       IN \E retrieval_ok \in BOOLEAN, llm \in LlmOutcomes :
            LET response == query(msg.request, retrieval_ok, llm)
            IN /\ last' = [task_id |-> msg.task_id,
                           request |-> msg.request,
                           result |-> [success |-> TRUE, error |-> "none",
                                       session_id |-> msg.task_id,
                                       data |-> response]]
               /\ queryLog' = queryLog + (IF response.logged THEN 1 ELSE 0)
               /\ execCount' = [execCount EXCEPT ![msg.task_id] = @ + 1]
    /\ queue' = Tail(queue)
    /\ UNCHANGED <<apiPc, session, pc, w, cancelPc, cancelResponse, cancelCount, revoke,
                   collExists, coll, seen, seqCalls, issued, repo, pushes,
                   callVars>>

\* ------------------------------------------- query_service.py: RRF fusion
\* the ids of the documents of the collection that is searched
DocIds == {"A", "B", "C", "D", "E"}

\* line 586: the parameter k of _reciprocal_rank_fusion
RrfK == 60

\* (k + 1) * ... * (k + n): a score is held as its exact multiple of
\* 1 / ScoreUnit(MaxRank), so that sums and comparisons of scores are exact
RECURSIVE ScoreUnit(_)
ScoreUnit(n) == IF n = 0 THEN 1 ELSE (RrfK + n) * ScoreUnit(n - 1)

\* a contribution that counts the ranks from 0
rrf_contribution_from_zero(rank) == ScoreUnit(MaxRank) \div (RrfK + rank)

\* lines 615 and 635: 1.0 / (k + rank + 1), rank counted from 0 by enumerate
rrf_contribution(rank) == ScoreUnit(MaxRank) \div (RrfK + rank + 1)

\* a ranked list as a search returns it: chroma returns an id once, and the
\* BM25 list has one entry per document of the collection
RankedLists ==
    {l \in UNION {[1..n -> DocIds] : n \in 0..MaxRank} :
        \A i, j \in DOMAIN l : i # j => l[i] # l[j]}

\* the place of doc_id among the keys of doc_info, 0 when it is not a key
KeyIndex(doc_info, doc_id) ==
    IF \E i \in DOMAIN doc_info : doc_info[i].id = doc_id
    THEN CHOOSE i \in DOMAIN doc_info : doc_info[i].id = doc_id
    ELSE 0

\* lines 606-616: the loop over vector_results from position r on (r counts
\* from 1, enumerate's rank is r - 1); doc_info keeps its keys in insertion
\* order; a rank of 0 stands for None
RECURSIVE VectorPass(_, _, _)
VectorPass(doc_info, vector_results, r) ==
    IF r > Len(vector_results) THEN doc_info
    ELSE LET doc_id == vector_results[r]
             at == KeyIndex(doc_info, doc_id)
             added == IF at = 0
                      THEN Append(doc_info,
                                  [id |-> doc_id, vector_rank |-> r,
                                   bm25_rank |-> 0, rrf_score |-> 0])
                      ELSE doc_info
             j == IF at = 0 THEN Len(added) ELSE at
         IN VectorPass([added EXCEPT ![j].rrf_score =
                                        @ + rrf_contribution(r - 1)],
                       vector_results, r + 1)

\* lines 624-636: the loop over bm25_results
RECURSIVE Bm25Pass(_, _, _)
Bm25Pass(doc_info, bm25_results, r) ==
    IF r > Len(bm25_results) THEN doc_info
    ELSE LET doc_id == bm25_results[r]
             at == KeyIndex(doc_info, doc_id)
             added == IF at = 0
                      THEN Append(doc_info,
                                  [id |-> doc_id, vector_rank |-> 0,
                                   bm25_rank |-> r, rrf_score |-> 0])
                      ELSE [doc_info EXCEPT ![at].bm25_rank = r]
             j == IF at = 0 THEN Len(added) ELSE at
         IN Bm25Pass([added EXCEPT ![j].rrf_score =
                                      @ + rrf_contribution(r - 1)],
                     bm25_results, r + 1)

\* an insertion that puts x before the entries of equal score
InsertBeforeEqual(sorted, x) ==
    LET before == {i \in DOMAIN sorted : sorted[i].rrf_score > x.rrf_score}
        n == Cardinality(before)
    IN SubSeq(sorted, 1, n) \o <<x>> \o SubSeq(sorted, n + 1, Len(sorted))

\* one step of a stable sort in descending score: x, which came after every
\* entry of sorted, goes behind the entries of greater or equal score
InsertDescending(sorted, x) ==
    LET before == {i \in DOMAIN sorted : sorted[i].rrf_score >= x.rrf_score}
        n == Cardinality(before)
    IN SubSeq(sorted, 1, n) \o <<x>> \o SubSeq(sorted, n + 1, Len(sorted))

\* lines 644-648: sorted(doc_info.items(), key = rrf_score, reverse = True);
\* Python's sort is stable, also with reverse = True
RECURSIVE SortedDescending(_)
SortedDescending(doc_info) ==
    IF doc_info = <<>> THEN <<>>
    ELSE InsertDescending(
             SortedDescending(SubSeq(doc_info, 1, Len(doc_info) - 1)),
             doc_info[Len(doc_info)])

\* lines 652-661: the RetrievedChunk of an entry
RetrievedChunk(info) == [id |-> info.id, score |-> info.rrf_score]

\* lines 582-671
reciprocal_rank_fusion(vector_results, bm25_results) ==
    LET doc_info == Bm25Pass(VectorPass(<<>>, vector_results, 1),
                             bm25_results, 1)
        sorted_docs == SortedDescending(doc_info)
    IN [i \in DOMAIN sorted_docs |-> RetrievedChunk(sorted_docs[i])]

NoFusion == [pc |-> "idle", vector_results |-> <<>>, bm25_results |-> <<>>,
             final_results |-> <<>>, top_results |-> <<>>]

\* lines 267-289 of _hybrid_retrieval: the two searches have returned their
\* lists; fuse them and keep the first FINAL_CONTEXT_TOP_K results
hybrid_retrieval ==
    /\ fusion.pc = "searched"
    /\ LET final_results == reciprocal_rank_fusion(fusion.vector_results,
                                                   fusion.bm25_results)
       IN fusion' = [fusion EXCEPT
                       !.pc = "fused",
                       !.final_results = final_results,
                       !.top_results =
                           SubSeq(final_results, 1,
                                  Min(FinalContextTopK, Len(final_results)))]
    /\ UNCHANGED <<apiPc, session, pc, w, cancelPc, cancelResponse, cancelCount, revoke,
                   collExists, coll, seen, seqCalls, issued, repo, queryVars,
                   bm25_cache, bm25_log, ident, chunker, embedder, metadata, merger>>

InitFusion == fusion = NoFusion

\* --------------------------------------- query_service.py: the BM25 cache
\* the identifiers that queries and clear_cache calls name: the repository
\* of the ingests and another one; None for a call without identifier
CacheIdentifiers == {"repo", "other"}

None == "None"

\* a dict without entries, dict.pop(key, None) and dict[key] = value
EmptyDict == [key \in {} |-> <<>>]

pop(dict, key) == [k \in DOMAIN dict \ {key} |-> dict[k]]

put(dict, key, value) ==
    [k \in DOMAIN dict \cup {key} |-> IF k = key THEN value ELSE dict[k]]

\* lines 33-35: a QueryService starts with empty caches: index is
\* _bm25_cache and documents is _documents_cache
NewQueryService == [index |-> EmptyDict, documents |-> EmptyDict]

\* lines 38-52: clear_cache(identifier) of a QueryService instance
clear_cache_index_only(caches, identifier) ==
    IF identifier # None
    THEN [caches EXCEPT !.index = pop(@, identifier)]
    ELSE [caches EXCEPT !.index = EmptyDict]

clear_cache(caches, identifier) ==
    IF identifier # None
    THEN [index |-> pop(caches.index, identifier),
          documents |-> pop(caches.documents, identifier)]
    ELSE [index |-> EmptyDict, documents |-> EmptyDict]

\* lines 560-566: the text that is tokenized for a document, its content
\* and file path, which the document's id stands for
doc_text(doc) == <<doc, "file_path">>

\* line 569: an index over the tokenized texts, in the order given
BM25Okapi(doc_texts) == [corpus_size |-> Len(doc_texts), corpus |-> doc_texts]

\* _get_bm25_index lines 537-580 for the documents that the vector store
\* returns: the index, if there is one, and the caches after the call
get_bm25_index(caches, repository_identifier, documents) ==
    IF repository_identifier \in DOMAIN caches.index
    THEN [found |-> TRUE, bm25_index |-> caches.index[repository_identifier],
          caches |-> caches]
    ELSE IF documents = <<>>
         THEN [found |-> FALSE, bm25_index |-> BM25Okapi(<<>>),
               caches |-> caches]
         ELSE LET doc_texts == [k \in DOMAIN documents |->
                                  doc_text(documents[k])]
                  bm25_index == BM25Okapi(doc_texts)
              IN [found |-> TRUE, bm25_index |-> bm25_index,
                  caches |->
                    [index |-> put(caches.index, repository_identifier,
                                   bm25_index),
                     documents |-> put(caches.documents,
                                       repository_identifier, documents)]]

\* VectorStore.get_all_documents_from_collection lines 447-467: the ids of
\* the collection's documents, [] when get_collection raises
get_all_documents_from_repository_collection ==
    IF collExists THEN [k \in DOMAIN coll |-> coll[k].id] ELSE <<>>

NoSearch == [done |-> FALSE, from_cache |-> FALSE, scores |-> 0,
             corpus |-> <<>>, collection |-> <<>>,
             index_predates_clear |-> FALSE]

NoBm25Log == [searches |-> 0, clears |-> 0, predates_clear |-> FALSE,
              last |-> NoSearch]

InitBm25 ==
    /\ bm25_cache = NewQueryService
    /\ bm25_log = NoBm25Log

\* lines 475-531 of _bm25_search with _get_bm25_index lines 548-580, when
\* the vector store holds the documents stored: the cached index if there is
\* one, else an index built from the documents and cached; no index and no
\* entry when there are no documents.  get_scores gives one score for each
\* text of the index (line 500), and score i is given to document i of the
\* cached list (lines 516-520).
BM25Search(repository_identifier, stored) ==
    LET hit == repository_identifier \in DOMAIN bm25_cache.index
        got == get_bm25_index(bm25_cache, repository_identifier, stored)
        \* lines 485 and 503: _documents_cache.get(repository_identifier, [])
        documents == IF repository_identifier \in DOMAIN got.caches.documents
                     THEN got.caches.documents[repository_identifier]
                     ELSE <<>>
    IN /\ bm25_cache' = got.caches
       /\ bm25_log' =
             [bm25_log EXCEPT
                !.searches = @ + 1,
                !.predates_clear = IF hit THEN @ ELSE FALSE,
                !.last = [done |-> TRUE, from_cache |-> hit,
                          scores |-> IF got.found
                                     THEN got.bm25_index.corpus_size ELSE 0,
                          corpus |-> IF got.found THEN documents ELSE <<>>,
                          collection |-> stored,
                          index_predates_clear |->
                            hit /\ bm25_log.predates_clear]]

\* _bm25_search run in a query for session s that validation has accepted
bm25_search(s) ==
    /\ bm25_log.searches < MaxSearches
    /\ SessionUsable(session[s])
    /\ BM25Search("repo", get_all_documents_from_repository_collection)
    /\ UNCHANGED <<apiPc, session, pc, w, cancelPc, cancelResponse, cancelCount, revoke,
                   collExists, coll, seen, seqCalls, issued, repo, queryVars,
                   fusion, ident, chunker, embedder, metadata, merger>>

\* repositories.py lines 383-399, DELETE /cache: the handler makes a new
\* QueryService, clears the caches of that instance and returns success; the
\* query_service singleton (query_service.py line 839) that the queries use
\* is not the instance it clears
clear_cache_endpoint ==
    /\ bm25_log.clears < MaxClears
    /\ LET query_service == clear_cache(NewQueryService, None)
       IN bm25_cache' = bm25_cache
    /\ bm25_log' = [bm25_log EXCEPT
                      !.clears = @ + 1,
                      !.predates_clear = "repo" \in DOMAIN bm25_cache'.index]
    /\ UNCHANGED <<apiPc, session, pc, w, cancelPc, cancelResponse, cancelCount, revoke,
                   collExists, coll, seen, seqCalls, issued, repo, queryVars,
                   fusion, ident, chunker, embedder, metadata, merger>>

\* the lists of documents that the vector store may hold for an identifier
\* when a search asks for them
DocumentDumps == {<<>>, <<"d1">>, <<"d2">>, <<"d1", "d2">>, <<"d2", "d1">>}

\* a call of _bm25_search on the QueryService, for any identifier
service_bm25_search ==
    /\ bm25_log.searches < MaxSearches
    /\ \E repository_identifier \in CacheIdentifiers,
          stored \in DocumentDumps :
          BM25Search(repository_identifier, stored)
    /\ UNCHANGED <<apiPc, session, pc, w, cancelPc, cancelResponse, cancelCount, revoke,
                   collExists, coll, seen, seqCalls, issued, repo, queryVars,
                   fusion, ident, chunker, embedder, metadata, merger>>

\* a call of clear_cache lines 38-52 on the QueryService, for one identifier
\* or for all
service_clear_cache ==
    /\ bm25_log.clears < MaxClears
    /\ \E identifier \in CacheIdentifiers \cup {None} :
          bm25_cache' = clear_cache(bm25_cache, identifier)
    /\ bm25_log' = [bm25_log EXCEPT
                      !.clears = @ + 1,
                      !.predates_clear = "repo" \in DOMAIN bm25_cache'.index]
    /\ UNCHANGED <<apiPc, session, pc, w, cancelPc, cancelResponse, cancelCount, revoke,
                   collExists, coll, seen, seqCalls, issued, repo, queryVars,
                   fusion, ident, chunker, embedder, metadata, merger>>

\* ------------------------------------------ calls of the identifier function
\* the URLs of two repositories, o/r and p/r, as a client may write them
UrlInputs ==
    [scheme : {"", "https://", "http://", "HTTPS://"},
     host : {"github.com", "www.github.com"},
     owner : {"o", "O", "p"}, name : {"r", "R"},
     git : BOOLEAN, slash : BOOLEAN]

NoIdent == [pc |-> "idle", url1 |-> NoUrl, url2 |-> NoUrl,
            id1 |-> <<>>, id2 |-> <<>>]

InitIdent == ident = NoIdent

\* ingestion_service.py line 60 in two ingests: each computes the identifier
\* of its repo_url
GenerateIdentifiers ==
    /\ ident.pc = "called"
    /\ ident' = [ident EXCEPT
                   !.pc = "returned",
                   !.id1 = generate_repository_identifier(ident.url1),
                   !.id2 = generate_repository_identifier(ident.url2)]
    /\ UNCHANGED <<apiPc, session, pc, w, cancelPc, cancelResponse, cancelCount, revoke,
                   collExists, coll, seen, seqCalls, issued, repo, queryVars,
                   fusion, bm25_cache, bm25_log, chunker, embedder, metadata, merger>>

\* ------------------------------------------------ ast_parser.py: chunking
\* Sizes are counts of non-whitespace characters (_count_non_whitespace_chars
\* line 239), which add up over lines and parts joined by newlines.  A text
\* is modelled by the sizes of its lines.

\* the parameters of AstParser.__init__ lines 99-123 on a small scale: the
\* proportions of the defaults (1000, 200, 100, 2000), and a parser whose
\* min_chunk_size is its chunk_size
ChunkParams ==
    {[chunk_size |-> 4, chunk_overlap |-> 1, min_chunk_size |-> 2,
      max_chunk_size |-> 6],
     [chunk_size |-> 5, chunk_overlap |-> 1, min_chunk_size |-> 5,
      max_chunk_size |-> 8]}

RECURSIVE Sum(_)
Sum(sizes) ==
    IF sizes = <<>> THEN 0 ELSE sizes[1] + Sum(Tail(sizes))

\* the loop of lines 331-337 and of _get_overlap_lines lines 911-917 over the
\* first k items, total taken so far: items from the end while they fit in
\* chunk_overlap
RECURSIVE OverlapFrom(_, _, _, _)
OverlapFrom(items, k, total, chunk_overlap) ==
    IF k = 0 THEN <<>>
    ELSE IF total + items[k] <= chunk_overlap
         THEN Append(OverlapFrom(items, k - 1, total + items[k],
                                 chunk_overlap), items[k])
         ELSE <<>>

\* _get_overlap_lines lines 902-919
get_overlap_lines(lines, p) ==
    IF lines = <<>> \/ p.chunk_overlap <= 0 THEN <<>>
    ELSE OverlapFrom(lines, Len(lines), 0, p.chunk_overlap)

\* the loop over the lines from line i on, with the lines of the current
\* chunk and the sizes of the chunks made so far: lines 543-573 of
\* _decompose_large_unit, and the same loop at lines 408-436
RECURSIVE LineChunks(_, _, _, _, _)
LineChunks(lines, i, current_lines, chunks, p) ==
    IF i > Len(lines)
    THEN IF current_lines # <<>>
         THEN Append(chunks, Sum(current_lines)) ELSE chunks
    ELSE LET line_non_ws == lines[i]
             current_non_ws == Sum(current_lines)
         IN IF /\ current_non_ws + line_non_ws > p.chunk_size
               /\ current_lines # <<>>
               /\ current_non_ws >= p.min_chunk_size
            THEN LineChunks(lines, i + 1,
                            Append(get_overlap_lines(current_lines, p),
                                   line_non_ws),
                            Append(chunks, current_non_ws), p)
            ELSE LineChunks(lines, i + 1,
                            Append(current_lines, line_non_ws), chunks, p)

\* _decompose_large_unit lines 534-576: the sizes of the sub-chunks
decompose_large_unit(lines, p) == LineChunks(lines, 1, <<>>, <<>>, p)

\* a unit of a document: the sizes of its lines, whether it starts a class,
\* function or the like (_is_major_boundary lines 462-532), and the size of
\* the text between it and the next unit or the end of the document, text
\* that is in no named child (a ";" or "}")
UnitLines == {<<1>>, <<3>>, <<3, 3>>, <<4, 3>>, <<7>>}

Units == [lines : UnitLines, major : BOOLEAN, gap : {0, 1}]

\* _get_syntax_units_for_chunking lines 870-900: the ranges are the units
\* in source order and the text after the last unit if it is not blank; the
\* text between two units is in no range
RECURSIVE get_syntax_units_for_chunking(_)
get_syntax_units_for_chunking(units) ==
    IF units = <<>> THEN <<>>
    ELSE IF Len(units) = 1 /\ units[1].gap > 0
         THEN <<[lines |-> units[1].lines, major |-> units[1].major],
                [lines |-> <<units[1].gap>>, major |-> FALSE]>>
         ELSE <<[lines |-> units[1].lines, major |-> units[1].major]>>
                  \o get_syntax_units_for_chunking(Tail(units))

\* flush_chunk lines 314-340: the chunk of the current parts is appended, and
\* the last parts that fit in chunk_overlap start the next chunk
flush_chunk(current_parts, chunks, p) ==
    IF current_parts = <<>>
    THEN [current_parts |-> current_parts, chunks |-> chunks]
    ELSE [current_parts |-> OverlapFrom(current_parts, Len(current_parts),
                                        0, p.chunk_overlap),
          chunks |-> Append(chunks, Sum(current_parts))]

\* lines 366-377: the three conditions under which the current chunk is
\* closed before the part is added (0.8, 1.2, 0.6 and 1.5 times chunk_size,
\* compared in tenths)
should_chunk(current_non_ws, part_len, major, p) ==
    \/ /\ current_non_ws + part_len > p.chunk_size
       /\ current_non_ws >= p.min_chunk_size
    \/ /\ 10 * current_non_ws >= 8 * p.chunk_size
       /\ 10 * (current_non_ws + part_len) > 12 * p.chunk_size
    \/ /\ 10 * current_non_ws >= 6 * p.chunk_size
       /\ major
       /\ 10 * (current_non_ws + part_len) > 15 * p.chunk_size

\* the loop of lines 342-383 from unit i on, and the last chunk of lines
\* 386-391
RECURSIVE UnitChunks(_, _, _, _, _)
UnitChunks(units, i, current_parts, chunks, p) ==
    IF i > Len(units)
    THEN IF current_parts # <<>>
         THEN Append(chunks, Sum(current_parts)) ELSE chunks
    ELSE LET part_len == Sum(units[i].lines)
             current_non_ws == Sum(current_parts)
             flushed == flush_chunk(current_parts, chunks, p)
         IN IF part_len > p.max_chunk_size
            THEN UnitChunks(units, i + 1, flushed.current_parts,
                            flushed.chunks
                                \o decompose_large_unit(units[i].lines, p),
                            p)
            ELSE IF current_parts # <<>>
                    /\ should_chunk(current_non_ws, part_len,
                                    units[i].major, p)
                 THEN UnitChunks(units, i + 1,
                                 Append(flushed.current_parts, part_len),
                                 flushed.chunks, p)
                 ELSE UnitChunks(units, i + 1,
                                 Append(current_parts, part_len), chunks, p)

\* content.split("\n") of a document: the lines of its units, the text
\* after a unit on a line of its own
RECURSIVE ContentLines(_)
ContentLines(units) ==
    IF units = <<>> THEN <<>>
    ELSE units[1].lines
             \o (IF units[1].gap > 0 THEN <<units[1].gap>> ELSE <<>>)
             \o ContentLines(Tail(units))

\* _chunk_large_document lines 274-440: the sizes of the chunks of the
\* document; by syntax units if the language has a parser and units are
\* found, else by lines
chunk_large_document(doc, parser_available, p) ==
    LET units == get_syntax_units_for_chunking(doc.units)
        chunks == UnitChunks(units, 1, <<>>, <<>>, p)
    IN IF parser_available /\ units # <<>> /\ chunks # <<>>
       THEN chunks
       ELSE LineChunks(ContentLines(doc.units), 1, <<>>, <<>>, p)

\* lines 957-963: element_priority, 5 for other types
element_priority(element_type) ==
    CASE element_type = "import" -> 1
      [] element_type = "assignment" -> 2
      [] element_type \in {"function", "decorated_definition"} -> 3
      [] element_type = "class" -> 4
      [] OTHER -> 5

\* one step of the stable sort of lines 966-969 by (priority, start_line)
InsertByPriority(sorted, doc) ==
    LET before == {i \in DOMAIN sorted :
                     \/ element_priority(sorted[i].element_type)
                            < element_priority(doc.element_type)
                     \/ /\ element_priority(sorted[i].element_type)
                               = element_priority(doc.element_type)
                        /\ sorted[i].start_line <= doc.start_line}
        n == Cardinality(before)
    IN SubSeq(sorted, 1, n) \o <<doc>> \o SubSeq(sorted, n + 1, Len(sorted))

RECURSIVE SortedByPriority(_)
SortedByPriority(documents) ==
    IF documents = <<>> THEN <<>>
    ELSE InsertByPriority(
             SortedByPriority(SubSeq(documents, 1, Len(documents) - 1)),
             documents[Len(documents)])

\* _can_merge_documents lines 1011-1037
can_merge_documents(current_group, new_doc, p) ==
    IF current_group = <<>> THEN TRUE
    ELSE LET last_doc == current_group[Len(current_group)]
             last_type == last_doc.element_type
             new_type == new_doc.element_type
             functions == {"function", "decorated_definition"}
         IN \/ last_type = "import" /\ new_type = "import"
            \/ last_type = "assignment" /\ new_type = "assignment"
            \/ /\ last_type \in functions
               /\ new_type \in functions
               /\ last_doc.size < p.min_chunk_size
               /\ new_doc.size < p.min_chunk_size

\* a document of the input list, as the output list holds it when it is
\* passed through: the object itself, which has no merged_count.  members are
\* the positions in the input list of the documents whose content it holds.
Passed(doc) ==
    [size |-> doc.size, element_type |-> doc.element_type,
     start_line |-> doc.start_line, is_merged |-> FALSE, merged_count |-> 0,
     members |-> <<doc.index>>]

\* lines 1049-1054: the type that most documents of the group have, the
\* first of them in the group on a tie
main_type(docs) ==
    LET count(ty) == Cardinality({i \in DOMAIN docs :
                                    docs[i].element_type = ty})
        first(ty) == CHOOSE i \in DOMAIN docs :
                        /\ docs[i].element_type = ty
                        /\ \A j \in 1 .. i - 1 : docs[j].element_type # ty
        types == {docs[i].element_type : i \in DOMAIN docs}
    IN CHOOSE ty \in types :
          \A other \in types \ {ty} :
              \/ count(ty) > count(other)
              \/ count(ty) = count(other) /\ first(ty) < first(other)

\* _create_merged_document lines 1039-1075: a group of one document is that
\* document; a longer group becomes a new document of the contents joined by
\* blank lines
create_merged_document_first(docs) ==
    Passed(docs[1])

create_merged_document(docs) ==
    IF Len(docs) = 1 THEN Passed(docs[1])
    ELSE [size |-> Sum([i \in DOMAIN docs |-> docs[i].size]),
          element_type |-> main_type(docs),
          start_line |-> CHOOSE v \in {docs[i].start_line : i \in DOMAIN docs} :
                            \A i \in DOMAIN docs : v <= docs[i].start_line,
          is_merged |-> TRUE, merged_count |-> Len(docs),
          members |-> [i \in DOMAIN docs |-> docs[i].index]]

\* the loop of lines 971-1006 from document i on
RECURSIVE MergeFrom(_, _, _, _, _)
MergeFrom(sorted_docs, i, current_merge_group, merged_docs, p) ==
    IF i > Len(sorted_docs)
    THEN IF current_merge_group # <<>>
         THEN Append(merged_docs, create_merged_document(current_merge_group))
         ELSE merged_docs
    ELSE LET doc == sorted_docs[i]
             current_merge_size ==
                 Sum([k \in DOMAIN current_merge_group |->
                        current_merge_group[k].size])
             closed == IF current_merge_group # <<>>
                       THEN Append(merged_docs,
                                   create_merged_document(current_merge_group))
                       ELSE merged_docs
         IN IF doc.size >= p.min_chunk_size
            THEN MergeFrom(sorted_docs, i + 1, <<>>,
                           Append(closed, Passed(doc)), p)
            ELSE IF /\ can_merge_documents(current_merge_group, doc, p)
                    /\ current_merge_size + doc.size <= p.chunk_size
                 THEN MergeFrom(sorted_docs, i + 1,
                                Append(current_merge_group, doc),
                                merged_docs, p)
                 ELSE MergeFrom(sorted_docs, i + 1, <<doc>>, closed, p)

\* _merge_small_documents lines 937-1009; each document is known by its
\* position in the list handed in
merge_small_documents(documents, p) ==
    LET indexed == [k \in DOMAIN documents |->
                      [size |-> documents[k].size,
                       element_type |-> documents[k].element_type,
                       start_line |-> documents[k].start_line,
                       index |-> k]]
    IN MergeFrom(SortedByPriority(indexed), 1, <<>>, <<>>, p)

\* the sizes of the documents of a list
Sizes(documents) == [k \in DOMAIN documents |-> documents[k].size]

\* the size of a document: its units and the text between them
RECURSIVE DocSize(_)
DocSize(units) ==
    IF units = <<>> THEN 0
    ELSE Sum(units[1].lines) + units[1].gap + DocSize(Tail(units))

\* _process_documents_with_chunking lines 253-272: a document over
\* max_chunk_size is replaced by its chunks, which keep its element type and
\* start line (_create_chunk_document lines 924-935); then the small
\* documents are merged
process_documents_with_chunking(documents, parser_available, p) ==
    LET Processed(doc) ==
            IF DocSize(doc.units) > p.max_chunk_size
            THEN LET chunks == chunk_large_document(doc, parser_available, p)
                 IN [k \in DOMAIN chunks |->
                       [size |-> chunks[k],
                        element_type |-> doc.element_type,
                        start_line |-> doc.start_line]]
            ELSE <<[size |-> DocSize(doc.units),
                    element_type |-> doc.element_type,
                    start_line |-> doc.start_line]>>
        RECURSIVE Extend(_)
        Extend(docs) ==
            IF docs = <<>> THEN <<>>
            ELSE Processed(docs[1]) \o Extend(Tail(docs))
    IN merge_small_documents(Extend(documents), p)

\* the elements that _extract_code_elements finds in a file: one element of
\* up to MaxUnits units, and a small element after it or none
Elements ==
    {units \in UNION {[1..n -> Units] : n \in 1..MaxUnits} : TRUE}

SmallElements ==
    {<<>>}
      \cup {<<[units |-> <<[lines |-> <<1>>, major |-> TRUE, gap |-> 0]>>,
              element_type |-> ty, start_line |-> 2]>> :
                ty \in {"import", "function"}}

NoChunker == [pc |-> "idle", p |-> CHOOSE p \in ChunkParams : TRUE,
              documents |-> <<>>, parser_available |-> FALSE,
              chunked |-> FALSE, chunks |-> <<>>, result |-> <<>>]

InitChunker == chunker = NoChunker

\* parse_with_ast lines 213-231, after the elements are extracted: the
\* documents are chunked and merged.  The chunks of the first element, when
\* it is over max_chunk_size, are kept apart as well.
parse_with_ast ==
    /\ chunker.pc = "extracted"
    /\ LET doc == chunker.documents[1]
           oversize == DocSize(doc.units) > chunker.p.max_chunk_size
       IN chunker' =
            [chunker EXCEPT
               !.pc = "returned",
               !.chunked = oversize,
               !.chunks = IF oversize
                          THEN chunk_large_document(
                                   doc, chunker.parser_available, chunker.p)
                          ELSE <<>>,
               !.result = Sizes(process_documents_with_chunking(
                              chunker.documents, chunker.parser_available,
                              chunker.p))]
    /\ UNCHANGED <<apiPc, session, pc, w, cancelPc, cancelResponse, cancelCount, revoke,
                   collExists, coll, seen, seqCalls, issued, repo, queryVars,
                   fusion, bm25_cache, bm25_log, ident, embedder, metadata, merger>>

\* the lists of documents that _merge_small_documents is handed: elements
\* of the four kinds, below, at and over the smaller min_chunk_size, in the
\* order of the file or against it
MergeTypes == {"import", "assignment", "function", "class"}

MergeSizes == 1 .. 3

MergeDocuments(n) ==
    {[k \in 1 .. n |->
        [size |-> f[k].size, element_type |-> f[k].element_type,
         start_line |-> IF reversed THEN n + 1 - k ELSE k]] :
       f \in [1 .. n -> [size : MergeSizes, element_type : MergeTypes]],
       reversed \in BOOLEAN}

NoMerger == [pc |-> "idle", p |-> CHOOSE p \in ChunkParams : TRUE,
             documents |-> <<>>, merged |-> <<>>]

InitMerger == merger = NoMerger

\* one call of _merge_small_documents lines 937-1009; lines 949-950 return
\* an empty list as it is
call_merge_small_documents ==
    /\ merger.pc = "called"
    /\ merger' = [merger EXCEPT
                    !.pc = "returned",
                    !.merged = IF merger.documents = <<>> THEN <<>>
                               ELSE merge_small_documents(merger.documents,
                                                          merger.p)]
    /\ UNCHANGED <<apiPc, session, pc, w, cancelPc, cancelResponse, cancelCount, revoke,
                   collExists, coll, seen, seqCalls, issued, repo, queryVars,
                   fusion, bm25_cache, bm25_log, ident, chunker, embedder,
                   metadata>>

\* ------------------------------------ embedding_manager.py: batch embedding
\* the text of an exception, as the set of the phrases it holds
RateLimitIndicators ==
    {"rate limit", "too many requests", "quota exceeded", "429",
     "rate_limit_exceeded"}

ApiKeyIndicators ==
    {"api key", "invalid key", "unauthorized", "401", "authentication",
     "invalid_api_key"}

\* _is_rate_limit_error lines 192-202
is_rate_limit_error(error) == error \cap RateLimitIndicators # {}

\* _is_api_key_error lines 204-215
is_api_key_error(error) == error \cap ApiKeyIndicators # {}

\* the texts of the exceptions that the provider raises
ErrorTexts == {{"429"}, {"401"}, {"401", "429"}, {"timeout"}}

\* the text of the EmbeddingError of line 127
MismatchText == {"mismatch"}

\* what aembed_documents gives for a batch: one vector per text (a vector is
\* named by the text it embeds), a vector too few, or a vector too many
Responses(batch) ==
    {batch, SubSeq(batch, 1, Len(batch) - 1), Append(batch, 0)}

\* line 126: the check of the number of vectors
AnyEmbeddings(embeddings, batch) == TRUE

ValidEmbeddings(embeddings, batch) == Len(embeddings) = Len(batch)

\* line 117: range(max_retries + 1), the number of attempts
RetryAttemptsOneMore(max_retries) == max_retries + 2

RetryAttempts(max_retries) == max_retries + 1

\* 2 ** attempt
RECURSIVE Pow2(_)
Pow2(n) == IF n = 0 THEN 1 ELSE 2 * Pow2(n - 1)

\* texts[i:i + batch_size], the texts named by their positions
TextBatch(n, i) == [k \in 1 .. BatchLen(n, i) |-> i + k]

NoEmbedder == [pc |-> "idle", n |-> 0, max_retries |-> 0, i |-> 0,
               attempt |-> 0, calls |-> <<>>, sleeps |-> <<>>,
               last_error |-> {}, rejected |-> 0,
               all_embeddings |-> <<>>, exception |-> "none"]

InitEmbedder == embedder = NoEmbedder

\* embed_documents_with_retry lines 99-105: no text gives no vector, else
\* the first batch starts
embed_documents_with_retry ==
    /\ embedder.pc = "called"
    /\ embedder' = [embedder EXCEPT
                       !.pc = IF embedder.n = 0 THEN "returned" ELSE "batch",
                       !.calls = IF embedder.n = 0 THEN <<>> ELSE <<0>>]
    /\ UNCHANGED <<apiPc, session, pc, w, cancelPc, cancelResponse,
                   cancelCount, revoke, collExists, coll, seen, seqCalls,
                   issued, repo, queryVars, fusion, bm25_cache, bm25_log,
                   ident, chunker, metadata, merger>>

\* the batch is over with these vectors: lines 108-110, the next batch or
\* the return
BatchDone(e, embeddings) ==
    LET next_i == e.i + BatchSize
    IN [e EXCEPT !.all_embeddings = @ \o embeddings,
                 !.last_error = {},
                 !.i = next_i,
                 !.attempt = 0,
                 !.calls = IF next_i < e.n THEN Append(@, 0) ELSE @,
                 !.pc = IF next_i < e.n THEN "batch" ELSE "returned"]

\* lines 131-160: the except branch of an attempt that raised error
AttemptFailed(e, error) ==
    LET f == [e EXCEPT !.last_error = error]
        retry(delay) == [f EXCEPT !.attempt = @ + 1,
                                  !.sleeps = Append(@, delay)]
        raise(exception) == [f EXCEPT !.pc = "raised",
                                      !.exception = exception]
        final == e.attempt + 1 >= RetryAttempts(e.max_retries)
    IN IF is_rate_limit_error(error)
       THEN IF ~final THEN retry(Pow2(e.attempt))
                     ELSE raise("RateLimitError")
       ELSE IF is_api_key_error(error)
            THEN raise("APIKeyError")
            ELSE IF ~final THEN retry(1)
                          ELSE raise("EmbeddingError")

\* _embed_batch_with_retry lines 117-163, one attempt: the call of the
\* embedder, the check of the number of vectors, and on an exception the
\* wait before the next attempt (in units of retry_delay) or the raise
embed_batch_with_retry ==
    /\ embedder.pc = "batch"
    /\ embedder.attempt < RetryAttempts(embedder.max_retries)
    /\ LET batch == TextBatch(embedder.n, embedder.i)
           b == Len(embedder.calls)
           called == [embedder EXCEPT !.calls[b] = @ + 1]
       IN \/ \E embeddings \in Responses(batch) :
                embedder' = IF ValidEmbeddings(embeddings, batch)
                            THEN BatchDone(called, embeddings)
                            ELSE AttemptFailed(
                                     [called EXCEPT !.rejected = @ + 1],
                                     MismatchText)
          \/ \E error \in ErrorTexts :
                embedder' = AttemptFailed(called, error)
    /\ UNCHANGED <<apiPc, session, pc, w, cancelPc, cancelResponse,
                   cancelCount, revoke, collExists, coll, seen, seqCalls,
                   issued, repo, queryVars, fusion, bm25_cache, bm25_log,
                   ident, chunker, metadata, merger>>

\* ------------------------------- ingestion_service.py: _save_metadata_batch
\* a FileMetadata row of a batch: its file, and whether the table accepts it
MetadataRows(n) ==
    [1 .. n -> BOOLEAN]

MetadataRow(batch, k) == [file |-> k, valid |-> batch[k]]

\* db.commit(): the pending rows are flushed in one transaction, which the
\* table refuses if it refuses one of them
commit_accepted(pending) ==
    \A k \in DOMAIN pending : pending[k].valid

\* db.rollback(): the transaction is undone and the rows added in it leave
\* the session
rollback_keeps_pending(pending) == pending

rollback(pending) == <<>>

NoMetadata == [pc |-> "idle", batch |-> <<>>, pending |-> <<>>,
               table |-> <<>>, k |-> 0, batch_failed |-> FALSE]

InitMetadata == metadata = NoMetadata

\* _save_metadata_batch lines 357-366: nothing for an empty batch; else
\* add_all and commit, and on an exception the rollback
save_metadata_batch ==
    /\ metadata.pc = "called"
    /\ LET n == Len(metadata.batch)
           pending == [k \in 1 .. n |-> MetadataRow(metadata.batch, k)]
       IN IF n = 0
          THEN metadata' = [metadata EXCEPT !.pc = "done"]
          ELSE \E db_ok \in BOOLEAN :
                 IF db_ok /\ commit_accepted(pending)
                 THEN metadata' = [metadata EXCEPT !.pc = "done",
                                                   !.table = @ \o pending]
                 ELSE metadata' = [metadata EXCEPT
                                      !.pc = "one_by_one",
                                      !.batch_failed = TRUE,
                                      !.pending = rollback(pending),
                                      !.k = 1]
    /\ UNCHANGED <<apiPc, session, pc, w, cancelPc, cancelResponse,
                   cancelCount, revoke, collExists, coll, seen, seqCalls,
                   issued, repo, queryVars, fusion, bm25_cache, bm25_log,
                   ident, chunker, embedder, merger>>

\* lines 367-373, one row of the loop: add and commit, and on an exception
\* the rollback
save_metadata_row ==
    /\ metadata.pc = "one_by_one"
    /\ LET n == Len(metadata.batch)
           pending == Append(metadata.pending,
                             MetadataRow(metadata.batch, metadata.k))
           after == [metadata EXCEPT
                        !.k = @ + 1,
                        !.pc = IF metadata.k = n THEN "done" ELSE @]
       IN IF commit_accepted(pending)
          THEN metadata' = [after EXCEPT !.table = @ \o pending,
                                         !.pending = <<>>]
          ELSE metadata' = [after EXCEPT !.pending = rollback(pending)]
    /\ UNCHANGED <<apiPc, session, pc, w, cancelPc, cancelResponse,
                   cancelCount, revoke, collExists, coll, seen, seqCalls,
                   issued, repo, queryVars, fusion, bm25_cache, bm25_log,
                   ident, chunker, embedder, merger>>

InitCallVars ==
    /\ InitFusion
    /\ InitBm25
    /\ InitMerger
    /\ InitMetadata
    /\ InitEmbedder
    /\ InitIdent
    /\ InitChunker

\* ------------------------------------------------------- specifications
Worker(s) ==
    \/ Start(s) \/ LoadConfig(s) \/ CheckCollection(s) \/ ReuseCount(s)
    \/ ReuseFinish(s) \/ CreateCheck(s) \/ CreateCall(s) \/ Clone(s)
    \/ ProcessFiles(s) \/ EmbedBatch(s) \/ StoreCount(s) \/ StoreAdd(s)
    \/ Finish(s)

Cancel(s) == CancelRead(s) \/ CancelRevoke(s) \/ CancelCommit(s)
                \/ RevokeDeliver(s)

InitCommon ==
    /\ w = [s \in Sessions |-> InitLocals]
    /\ cancelPc = [s \in Sessions |-> "idle"]
    /\ cancelResponse = [s \in Sessions |-> "none"]
    /\ cancelCount = 0
    /\ revoke = [s \in Sessions |-> "none"]
    /\ collExists = FALSE
    /\ coll = <<>>
    /\ seqCalls = 0
    /\ issued = <<>>
    /\ repo = NoRepo
    /\ InitQueryVars
    /\ InitCallVars

\* no ingest was requested and no query task was pushed
InitNoRequests ==
    /\ w = [s \in Sessions |-> InitLocals]
    /\ cancelPc = [s \in Sessions |-> "idle"]
    /\ cancelResponse = [s \in Sessions |-> "none"]
    /\ cancelCount = 0
    /\ revoke = [s \in Sessions |-> "none"]
    /\ collExists = FALSE
    /\ coll = <<>>
    /\ seqCalls = 0
    /\ issued = <<>>
    /\ repo = NoRepo
    /\ apiPc = [s \in Sessions |-> "new"]
    /\ session = [s \in Sessions |-> NoRow]
    /\ pc = [s \in Sessions |-> "idle"]
    /\ seen = [s \in Sessions |-> <<>>]
    /\ InitQueryVars

\* the system before any request
Init ==
    /\ InitCommon
    /\ apiPc = [s \in Sessions |-> "new"]
    /\ session = [s \in Sessions |-> NoRow]
    /\ pc = [s \in Sessions |-> "idle"]
    /\ seen = [s \in Sessions |-> <<>>]

Next ==
    \E s \in Sessions :
        AnalyzeEnqueue(s) \/ AnalyzeCommit(s) \/ Worker(s) \/ Cancel(s)

Spec == Init /\ [][Next]_vars

\* the system after the analyze handlers have returned: every session row is
\* committed and every task is queued
InitSvc ==
    /\ InitCommon
    /\ apiPc = [s \in Sessions |-> "committed"]
    /\ session = [s \in Sessions |-> NewRow]
    /\ pc = [s \in Sessions |-> "queued"]
    /\ seen = [s \in Sessions |-> <<"PENDING">>]

NextSvc == \E s \in Sessions : Worker(s) \/ Cancel(s)

SpecSvc == InitSvc /\ [][NextSvc]_vars

\* ------------------------------------------- sequential add_documents calls
\* the records of the first k documents of a call that adds to a collection
\* of existing_count chunks in batches of b
CallRecords(existing_count, k, b, s) ==
    [d \in 1 .. k |->
        [id |-> DocId(existing_count, ((d - 1) \div b) * b, (d - 1) % b),
         owner |-> s]]

\* VectorStore.add_documents_to_collection, the whole call: n documents in
\* batches of b; the store fails after m batches, or not at all
add_documents_to_collection(s, n, b, m) ==
    /\ seqCalls < MaxSeqCalls
    /\ collExists
    /\ LET existing_count == Len(coll)
           recs == CallRecords(existing_count, Min(n, m * b), b, s)
       IN /\ coll' = coll \o SelectFresh(recs, CollIds)
          /\ issued' = issued \o [k \in DOMAIN recs |-> recs[k].id]
    /\ seqCalls' = seqCalls + 1
    /\ UNCHANGED <<apiPc, session, pc, w, cancelPc, cancelResponse, cancelCount, revoke,
                   collExists, seen, repo, queryVars, callVars>>

NextSeq ==
    \E s \in Sessions, n \in 1 .. MaxDocs, b \in 1 .. BatchSize :
        \E m \in 0 .. MaxDocs :
            add_documents_to_collection(s, n, b, m)

\* an empty collection that exists, and ingests that call add_documents one
\* after the other
InitSeq ==
    /\ w = [s \in Sessions |-> InitLocals]
    /\ cancelPc = [s \in Sessions |-> "idle"]
    /\ cancelResponse = [s \in Sessions |-> "none"]
    /\ cancelCount = 0
    /\ revoke = [s \in Sessions |-> "none"]
    /\ collExists = TRUE
    /\ coll = <<>>
    /\ seqCalls = 0
    /\ issued = <<>>
    /\ repo = NoRepo
    /\ InitQueryVars
    /\ InitCallVars
    /\ apiPc = [s \in Sessions |-> "committed"]
    /\ session = [s \in Sessions |-> NewRow]
    /\ pc = [s \in Sessions |-> "queued"]
    /\ seen = [s \in Sessions |-> <<"PENDING">>]

SpecSeq == InitSeq /\ [][NextSeq]_vars

\* -------------------------------------------- one ingest of any repository
\* the first session's task is queued for a repository of any files (empty
\* files, files without chunks and files that fail among them); the
\* collection exists already, empty, or does not
InitFiles ==
    /\ w = [s \in Sessions |-> InitLocals]
    /\ cancelPc = [s \in Sessions |-> "idle"]
    /\ cancelResponse = [s \in Sessions |-> "none"]
    /\ cancelCount = 0
    /\ revoke = [s \in Sessions |-> "none"]
    /\ collExists \in BOOLEAN
    /\ coll = <<>>
    /\ seqCalls = 0
    /\ issued = <<>>
    /\ \E fs \in Repos : repo = [known |-> TRUE, files |-> fs]
    /\ InitQueryVars
    /\ InitCallVars
    /\ apiPc = [s \in Sessions |-> "committed"]
    /\ session = [s \in Sessions |-> NewRow]
    /\ pc = [s \in Sessions |-> "queued"]
    /\ seen = [s \in Sessions |-> <<"PENDING">>]

NextFiles == Worker("s1") \/ Cancel("s1")

SpecFiles == InitFiles /\ [][NextFiles]_vars

\* ------------------------------------------- fusion of two ranked lists
\* a query whose vector search and BM25 search have returned any two lists
InitRrf ==
    /\ InitNoRequests
    /\ InitBm25
    /\ InitMerger
    /\ InitMetadata
    /\ InitEmbedder
    /\ InitIdent
    /\ InitChunker
    /\ \E v \in RankedLists, b \in RankedLists :
          fusion = [NoFusion EXCEPT !.pc = "searched",
                                    !.vector_results = v,
                                    !.bm25_results = b]

NextRrf == hybrid_retrieval

SpecRrf == InitRrf /\ [][NextRrf]_vars

\* ------------------------------------------- identifiers of pairs of URLs
InitIdentifiers ==
    /\ InitNoRequests
    /\ InitFusion
    /\ InitBm25
    /\ InitMerger
    /\ InitMetadata
    /\ InitEmbedder
    /\ InitChunker
    /\ \E u1 \in UrlInputs, u2 \in UrlInputs :
          ident = [NoIdent EXCEPT !.pc = "called", !.url1 = u1, !.url2 = u2]

NextIdentifiers == GenerateIdentifiers

SpecIdentifiers == InitIdentifiers /\ [][NextIdentifiers]_vars

\* ------------------------------------------- saving of metadata rows
\* a call of _save_metadata_batch with a batch of up to MaxRows rows
InitSaving ==
    /\ InitNoRequests
    /\ InitFusion
    /\ InitBm25
    /\ InitMerger
    /\ InitIdent
    /\ InitChunker
    /\ InitEmbedder
    /\ \E n \in 0 .. MaxRows : \E batch \in MetadataRows(n) :
          metadata = [NoMetadata EXCEPT !.pc = "called", !.batch = batch]

NextSaving == save_metadata_batch \/ save_metadata_row

SpecSaving == InitSaving /\ [][NextSaving]_vars

\* ------------------------------------------------ embedding of texts
\* a call of embed_documents_with_retry with up to MaxTexts texts and a
\* configuration of up to MaxRetries retries
InitEmbedding ==
    /\ InitNoRequests
    /\ InitFusion
    /\ InitBm25
    /\ InitMerger
    /\ InitMetadata
    /\ InitIdent
    /\ InitChunker
    /\ \E n \in 0 .. MaxTexts, max_retries \in 0 .. MaxRetries :
          embedder = [NoEmbedder EXCEPT !.pc = "called", !.n = n,
                                        !.max_retries = max_retries]

NextEmbedding == embed_documents_with_retry \/ embed_batch_with_retry

SpecEmbedding == InitEmbedding /\ [][NextEmbedding]_vars

\* -------------------------------------------------- chunking of a file
\* a file whose elements are extracted: a class or a function of any units,
\* and a small import or function after it or nothing
InitChunking ==
    /\ InitNoRequests
    /\ InitFusion
    /\ InitBm25
    /\ InitMerger
    /\ InitMetadata
    /\ InitEmbedder
    /\ InitIdent
    /\ \E p \in ChunkParams, units \in Elements,
          ty \in {"class", "function"}, small \in SmallElements,
          parser_available \in BOOLEAN :
          chunker = [NoChunker EXCEPT
                       !.pc = "extracted",
                       !.p = p,
                       !.documents =
                           <<[units |-> units, element_type |-> ty,
                              start_line |-> 1]>> \o small,
                       !.parser_available = parser_available]

NextChunking == parse_with_ast

SpecChunking == InitChunking /\ [][NextChunking]_vars

\* ------------------------------------------- merging of small documents
\* one call of _merge_small_documents on a list of documents
InitMerging ==
    /\ InitNoRequests
    /\ InitFusion
    /\ InitBm25
    /\ InitIdent
    /\ InitChunker
    /\ InitEmbedder
    /\ InitMetadata
    /\ \E p \in ChunkParams, n \in 0 .. MaxMergeDocs :
       \E documents \in MergeDocuments(n) :
          merger = [NoMerger EXCEPT !.pc = "called", !.p = p,
                                    !.documents = documents]

NextMerging == call_merge_small_documents

SpecMerging == InitMerging /\ [][NextMerging]_vars

\* ------------------------------------- the caches of one QueryService
\* searches and clear_cache calls on one QueryService, in any order
InitService ==
    /\ InitNoRequests
    /\ InitCallVars

NextService == service_bm25_search \/ service_clear_cache

SpecService == InitService /\ [][NextService]_vars

\* ----------------------------------- BM25 searches while ingests write
\* two ingests of the repository, BM25 searches of the queries on their
\* sessions, and DELETE /cache requests
NextCache ==
    \/ \E s \in Sessions : Worker(s) \/ bm25_search(s)
    \/ clear_cache_endpoint

SpecCache == InitSvc /\ [][NextCache]_vars

\* ------------------------------------------------- queries on the sessions
\* a committed row in the given status, as the ingest or the cancel leaves it
RowIn(status) ==
    [NewRow EXCEPT !.status = status,
                   !.started_at = status # "PENDING",
                   !.completed_at = status \in CancelFinalStates,
                   !.error_message =
                       CASE status = "FAILED" -> "error"
                         [] status = "CANCELLED" -> "cancelled"
                         [] OTHER -> "none"]

\* the first session in any status, or not committed, the second one
\* SUCCESS or not committed, and no query yet
InitQuery ==
    /\ w = [s \in Sessions |-> InitLocals]
    /\ cancelPc = [s \in Sessions |-> "idle"]
    /\ cancelResponse = [s \in Sessions |-> "none"]
    /\ cancelCount = 0
    /\ revoke = [s \in Sessions |-> "none"]
    /\ collExists = TRUE
    /\ coll = <<>>
    /\ seqCalls = 0
    /\ issued = <<>>
    /\ repo = NoRepo
    /\ InitQueryVars
    /\ InitCallVars
    /\ \E r1 \in {NoRow} \cup {RowIn(st) : st \in TaskStatus},
          r2 \in {NoRow, RowIn("SUCCESS")} :
           session = [s \in Sessions |-> IF s = "s1" THEN r1 ELSE r2]
    /\ apiPc = [s \in Sessions |->
                   IF session[s].exists THEN "committed" ELSE "new"]
    /\ pc = [s \in Sessions |-> IF session[s].exists THEN "done" ELSE "idle"]
    /\ seen = [s \in Sessions |-> <<>>]

NextQuery ==
    \/ \E id \in TaskIds, request \in QueryRequests :
           push_query_task(id, request)
    \/ process_query

SpecQuery == InitQuery /\ [][NextQuery]_vars

\* ------------------------------------------------------------------ claims
\* the run of s found the collection existing, with at least one chunk in it
ReusedPopulated(s) == w[s].collection_exists /\ w[s].count_at_check >= 1

ReuseOnlyIfNonEmpty ==
    \A s \in Sessions :
        (pc[s] = "done" /\ w[s].collection_exists /\ w[s].doc_count = 0)
            => w[s].cloned

\* C3: an ingest submitted through the analyze handler that meets no failure
\* and no cancel has held the statuses PENDING, PROCESSING, SUCCESS in this
\* order once the handler and the task have both finished.
AnalyzeStatusSequence ==
    \A s \in Sessions :
        (/\ apiPc[s] = "committed"
         /\ pc[s] = "done"
         /\ ~w[s].failed
         /\ cancelPc[s] = "idle")
            => seen[s] = <<"PENDING", "PROCESSING", "SUCCESS">>

\* number of chunks in the batches bs of a run of n chunks
ChunksIn(bs, n) ==
    Cardinality({d \in 0 .. (n - 1) : ((d \div BatchSize) + 1) \in bs})

\* C4: once the cancel of an ingest has been observed (the task is
\* terminated) and the cancel request has committed, the collection holds
\* exactly the chunks of the N batches the ingest had written, N * batch_size
\* and at most the total, and the session status is CANCELLED.
CancelLeavesNBatches ==
    \A s \in Sessions :
        (pc[s] = "killed" /\ cancelPc[s] = "done") =>
            /\ session[s].status = "CANCELLED"
            /\ OwnedBy(s) = Min(Cardinality(w[s].writtenBatches) * BatchSize,
                                w[s].n)

\* C5: once the cancel request has set a session to CANCELLED, no later
\* write changes its status.
CancelledIsFinal ==
    [][\A s \in Sessions :
          session[s].status = "CANCELLED" => session'[s].status = "CANCELLED"
      ]_vars

InterleavedIdsDisjoint ==
    \A s, t \in Sessions :
        s # t => (w[s].gen \cap w[t].gen = {} /\ ~w[s].collided)

\* an ingest that may still add chunks to the collection
Busy(t) == pc[t] \in {"create_check", "create_call", "clone", "scan",
                       "embed", "store_count", "store_add"}

\* C8: no session is set to SUCCESS through the reuse short-circuit while
\* another ingest of the same identifier is still running and has not yet
\* written all its chunks.
ReuseAfterFirstFinished ==
    [][\A s \in Sessions :
          (pc[s] = "reuse_finish" /\ pc'[s] = "done") =>
              \A t \in Sessions \ {s} : ~Busy(t)]_vars

\* C9: a failed batch does not stop the embedding phase: when the phase is
\* over, every batch except the failed ones has been written and the count
\* of indexed chunks is the number of chunks of the written batches.
FailedBatchDoesNotStopPhase ==
    \A s \in Sessions :
        (pc[s] \in {"finish", "done"} /\ w[s].failedBatches # {}) =>
            /\ w[s].writtenBatches =
                   (1 .. NumBatches(w[s].n)) \ w[s].failedBatches
            /\ w[s].processed_docs = ChunksIn(w[s].writtenBatches, w[s].n)

\* C10: an ingest that passed the configuration, collection and clone steps
\* and had at least one failed batch ends with status PARTIAL_SUCCESS, with
\* completed_at and error_message set.
BatchFailureIsPartialSuccess ==
    \A s \in Sessions :
        (pc[s] = "done" /\ w[s].failedBatches # {} /\ cancelPc[s] = "idle")
            => /\ session[s].status = "PARTIAL_SUCCESS"
               /\ session[s].completed_at
               /\ session[s].error_message # "none"

\* C11: when a file raises in the per-file phase of an ingest that meets no
\* other failure and no cancel, the other files are still processed (every
\* chunk of the repository is collected), the row of that file is saved with
\* is_processed = failed and an error_message, and the session ends with
\* status PARTIAL_SUCCESS.
FileFailureIsPartialSuccess ==
    \A s \in Sessions :
        (pc[s] = "done" /\ w[s].scanned /\ ~w[s].failed
             /\ cancelPc[s] = "idle") =>
            \A f \in DOMAIN repo.files :
                repo.files[f].kind = "raises" =>
                    /\ w[s].n = ChunksOf(repo.files)
                    /\ \E k \in DOMAIN w[s].meta :
                          /\ w[s].meta[k].file = f
                          /\ w[s].meta[k].is_processed = "failed"
                          /\ w[s].meta[k].error_message
                    /\ session[s].status = "PARTIAL_SUCCESS"

SuccessCountersEqual ==
    \A s \in Sessions :
        (session[s].exists /\ session[s].status = "SUCCESS") =>
            session[s].indexed_chunks = session[s].total_chunks

\* a query task has been executed
Executed == last.task_id # "none"

\* C14: an executed query has called the retrieval only if some session of
\* the repository has status SUCCESS, and a query whose session_id is the id
\* of a session that is not SUCCESS has not called the retrieval.
QueryRetrievesOnlyForSuccess ==
    Executed =>
        LET text == last.request.session_id
        IN /\ last.result.data.retrieved =>
                  \E s \in Sessions :
                      session[s].exists /\ session[s].status = "SUCCESS"
           /\ (/\ text.kind = "id"
               /\ text.id \in Sessions
               /\ session[text.id].exists
               /\ session[text.id].status # "SUCCESS")
                  => ~last.result.data.retrieved

QueryRetrievesOnlyForSuccessWitness ==
    /\ Executed
    /\ last.request.session_id.kind = "id"
    /\ last.request.session_id.id \in Sessions
    /\ session[last.request.session_id.id].exists
    /\ session[last.request.session_id.id].status = "PROCESSING"
    /\ \E s \in Sessions : session[s].exists /\ session[s].status = "SUCCESS"
    /\ ~last.result.data.retrieved

\* C15: when the repository has a SUCCESS session, a query whose session_id
\* is the repository URL resolves to the identifier that a query by the id
\* of that session resolves to, the identifier of the session's URL.
UrlResolvesAsSessionId ==
    (/\ Executed
     /\ last.request.session_id = UrlText(RepoUrl)
     /\ \E s \in Sessions :
           session[s].exists /\ session[s].status = "SUCCESS")
        => last.result.data.identifier =
               generate_repository_identifier(RepoUrl)

\* C16: a query task whose session_id is the id of no session and is no URL
\* ends with success = false and the error SessionNotFound.
UnknownSessionIsSessionNotFound ==
    (/\ Executed
     /\ last.request.session_id.kind = "id"
     /\ (last.request.session_id.id \in Sessions
             => ~session[last.request.session_id.id].exists))
        => /\ ~last.result.success
           /\ last.result.error = "SessionNotFound"

\* C17: a query in plugin mode never invokes the LLM and its response has a
\* null answer, whatever the outcome of the query.
PluginModeHasNoAnswer ==
    (Executed /\ last.request.generation_mode = "plugin") =>
        /\ ~last.result.data.llm_invoked
        /\ last.result.data.answer = "null"

\* C18: the result of a query holds a non-null answer only when the query
\* succeeded; after a failed validation, retrieval or generation the answer
\* is null and the task result reports an error.
AnswerOnlyOnSuccess ==
    Executed =>
        /\ last.result.data.answer # "null" =>
               last.result.data.outcome = "answered"
        /\ last.result.data.outcome \notin {"answered", "retrieved_only"} =>
               /\ last.result.data.answer = "null"
               /\ ~last.result.success

\* the number of executions of process_query
RECURSIVE SumOver(_, _)
SumOver(f, ids) ==
    IF ids = {} THEN 0
    ELSE LET id == CHOOSE x \in ids : TRUE
         IN f[id] + SumOver(f, ids \ {id})

\* C19: the query_logs table holds exactly one row per executed query task.
OneLogRowPerExecution == queryLog = SumOver(execCount, TaskIds)

\* C20: the tasks submitted under one session_id are executed at most once.
EnqueueIdempotent == \A id \in TaskIds : execCount[id] <= 1

\* ----------------------------------------------------------- RRF fusion
\* the rank of doc_id in a list, counted from 1; 0 when the list lacks it
RankIn(list, doc_id) ==
    IF \E i \in DOMAIN list : list[i] = doc_id
    THEN CHOOSE i \in DOMAIN list : list[i] = doc_id
    ELSE 0

\* 1 / (60 + rank) in units of 1 / ScoreUnit(MaxRank); nothing for no rank
Reciprocal(rank) ==
    IF rank = 0 THEN 0 ELSE ScoreUnit(MaxRank) \div (60 + rank)

ScoreOf(results, doc_id) ==
    LET i == CHOOSE i \in DOMAIN results : results[i].id = doc_id
    IN results[i].score

\* every fused document has the sum of its reciprocal ranks as its score
FusedScoresAreRankSums ==
    \A i \in DOMAIN fusion.final_results :
        LET c == fusion.final_results[i]
        IN c.score = Reciprocal(RankIn(fusion.vector_results, c.id))
                     + Reciprocal(RankIn(fusion.bm25_results, c.id))

ExampleFused ==
    /\ fusion.pc = "fused"
    /\ fusion.vector_results = <<"A", "B", "C">>
    /\ fusion.bm25_results = <<"B", "D", "A">>

\* C21 as stated: the score of a fused document is the sum over the lists
\* that contain it of 1/(60 + rank), ranks counted from 1, and for the
\* vector list [A,B,C] and the BM25 list [B,D,A] the score of A is
\* 1/61 + 1/63, that of B is 1/62 + 1/61 and the order is B > A > C = D.
RrfExampleWithTie ==
    fusion.pc = "fused" =>
        /\ FusedScoresAreRankSums
        /\ ExampleFused =>
              LET f == fusion.final_results
              IN /\ ScoreOf(f, "A") = Reciprocal(1) + Reciprocal(3)
                 /\ ScoreOf(f, "B") = Reciprocal(2) + Reciprocal(1)
                 /\ ScoreOf(f, "B") > ScoreOf(f, "A")
                 /\ ScoreOf(f, "A") > ScoreOf(f, "C")
                 /\ ScoreOf(f, "C") = ScoreOf(f, "D")

\* C21 amended: the same scores, and the output order of the example is
\* B > A > D > C (D has 1/62, C has 1/63).
RrfExample ==
    fusion.pc = "fused" =>
        /\ FusedScoresAreRankSums
        /\ ExampleFused =>
              LET f == fusion.final_results
              IN /\ ScoreOf(f, "A") = Reciprocal(1) + Reciprocal(3)
                 /\ ScoreOf(f, "B") = Reciprocal(2) + Reciprocal(1)
                 /\ [i \in DOMAIN f |-> f[i].id] = <<"B", "A", "D", "C">>
                 /\ ScoreOf(f, "B") > ScoreOf(f, "A")
                 /\ ScoreOf(f, "A") > ScoreOf(f, "D")
                 /\ ScoreOf(f, "D") > ScoreOf(f, "C")

RrfExampleWitness == ExampleFused

\* the order of the document ids
DocOrder == <<"A", "B", "C", "D", "E">>

\* a rank as a sort key: a document that a list lacks comes after every
\* document of the list
RankKey(list, doc_id) ==
    IF RankIn(list, doc_id) = 0 THEN MaxRank + 1 ELSE RankIn(list, doc_id)

\* a comes before b by vector rank, then BM25 rank, then document id
TieBefore(a, b) ==
    LET va == RankKey(fusion.vector_results, a)
        vb == RankKey(fusion.vector_results, b)
        ba == RankKey(fusion.bm25_results, a)
        bb == RankKey(fusion.bm25_results, b)
    IN \/ va < vb
       \/ va = vb /\ ba < bb
       \/ va = vb /\ ba = bb /\ RankIn(DocOrder, a) < RankIn(DocOrder, b)

\* C22: the fused result is in descending RRF score, documents of equal
\* score are in ascending vector rank, then ascending BM25 rank, then
\* ascending document id; each id appears once and at most
\* FINAL_CONTEXT_TOP_K documents are returned.
FusedOrderAndCut ==
    fusion.pc = "fused" =>
        LET t == fusion.top_results
        IN /\ Len(t) <= FinalContextTopK
           /\ \A i, j \in DOMAIN t :
                 i < j =>
                   /\ t[i].id # t[j].id
                   /\ \/ t[i].score > t[j].score
                      \/ /\ t[i].score = t[j].score
                         /\ TieBefore(t[i].id, t[j].id)

\* a fusion with two documents of equal score among the returned ones, and
\* more fused documents than are returned
FusedOrderAndCutWitness ==
    /\ fusion.pc = "fused"
    /\ Len(fusion.final_results) > FinalContextTopK
    /\ \E i \in DOMAIN fusion.top_results :
          /\ i + 1 \in DOMAIN fusion.top_results
          /\ fusion.top_results[i].score = fusion.top_results[i + 1].score

\* --------------------------------------------------------- the BM25 cache
\* C23: after a DELETE /cache request has returned success, the next query
\* rebuilds its BM25 index from the vector store: no search uses an index
\* that was cached before the request.
ClearCacheDropsIndices ==
    bm25_log.last.done => ~bm25_log.last.index_predates_clear

\* C29: a BM25 search ranks exactly the documents that are in the collection
\* at the time of the query, whether it answers from the cached index or
\* from a rebuilt one.
CachedIndexIsCurrent ==
    bm25_log.last.done => bm25_log.last.corpus = bm25_log.last.collection

\* ------------------------------------------------ repository identifiers
UpperLetters == {"O", "R", "H", "T", "P", "S"}

HexDigits == {"0", "1", "2", "3", "4", "5", "6", "7", "8", "9",
              "a", "b", "c", "d", "e", "f"}

\* the two URLs name the same owner/name up to letter case
SameOwnerAndName(u1, u2) ==
    /\ LowerText(Chars(u1.owner)) = LowerText(Chars(u2.owner))
    /\ LowerText(Chars(u1.name)) = LowerText(Chars(u2.name))

\* id is lowercase, github_<owner>_<name>_ and then exactly 8 hex characters
WellFormedIdentifier(id, url) ==
    LET prefix == <<"g", "i", "t", "h", "u", "b", "_">>
                      \o LowerText(Chars(url.owner)) \o <<"_">>
                      \o LowerText(Chars(url.name)) \o <<"_">>
    IN /\ \A i \in DOMAIN id : id[i] \notin UpperLetters
       /\ StartsWith(id, prefix)
       /\ Len(id) = Len(prefix) + 8
       /\ \A i \in (Len(prefix) + 1)..Len(id) : id[i] \in HexDigits

\* C24: two URLs of the same owner/name that differ in letter case, scheme
\* or missing scheme, trailing slash or .git suffix get the same identifier;
\* an identifier is lowercase, starts with github_<owner>_<name>_ and ends
\* with exactly 8 hexadecimal characters.
IdentifierDeterminism ==
    ident.pc = "returned" =>
        /\ WellFormedIdentifier(ident.id1, ident.url1)
        /\ WellFormedIdentifier(ident.id2, ident.url2)
        /\ SameOwnerAndName(ident.url1, ident.url2) => ident.id1 = ident.id2

\* two different texts of one repository: the one in upper case, without
\* scheme, with .git and a trailing slash, the other plain
IdentifierDeterminismWitness ==
    /\ ident.pc = "returned"
    /\ ident.url1 = [scheme |-> "", host |-> "github.com", owner |-> "O",
                     name |-> "R", git |-> TRUE, slash |-> TRUE]
    /\ ident.url2 = RepoUrl
    /\ ident.id1 = ident.id2
    /\ ident.id1 # <<>>

\* ------------------------------------------------------------ the chunker
\* C25: every chunk that parse_with_ast returns has at most max_chunk_size
\* non-whitespace characters.
ChunksWithinMaxSize ==
    chunker.pc = "returned" =>
        \A k \in DOMAIN chunker.result :
            chunker.result[k] <= chunker.p.max_chunk_size

\* C26: the sum of the sizes of the chunks of an oversize document differs
\* from the size of the document by at most num_chunks * chunk_overlap.
ChunksCoverDocument ==
    (chunker.pc = "returned" /\ chunker.chunked) =>
        LET total == Sum(chunker.chunks)
            original == DocSize(chunker.documents[1].units)
            slack == Len(chunker.chunks) * chunker.p.chunk_overlap
        IN total - original <= slack /\ original - total <= slack

\* ------------------------------------------------- counters of a session
\* C27: in every state the counters of a session are within their totals:
\* indexed_chunks <= total_chunks and processed_files <= total_files.
CountersWithinTotals ==
    \A s \in Sessions :
        /\ session[s].indexed_chunks <= session[s].total_chunks
        /\ session[s].processed_files <= session[s].total_files

\* ------------------------------------------------ terminal sessions
\* C28: in every state a session's status is one of SUCCESS,
\* PARTIAL_SUCCESS, FAILED, CANCELLED if and only if its completed_at is
\* set, also when a cancel request and the worker write to the session.
TerminalIffCompletedAt ==
    \A s \in Sessions :
        session[s].exists =>
            (session[s].status
                 \in {"SUCCESS", "PARTIAL_SUCCESS", "FAILED", "CANCELLED"}
               <=> session[s].completed_at)

\* ------------------------------------------------------ create_collection
\* C30: create_collection is idempotent: a call for a collection that
\* exists returns True and leaves the collection and its chunks as they
\* are, and a call that the store answers returns True also when another
\* ingest creates the same collection at the same time, which is then
\* created once.
CreateCollectionReturns(s) ==
    /\ w[s].create_ret = "none"
    /\ w'[s].create_ret # "none"

CreateCollectionIdempotent ==
    [][\A s \in Sessions :
         CreateCollectionReturns(s) =>
             /\ collExists => (collExists' /\ coll' = coll)
             /\ w'[s].create_exc # "unavailable" =>
                    (w'[s].create_ret = "true" /\ collExists')]_vars

\* ------------------------------------------- cancel of a finished session
\* the cancel request of session s reads the row in this step
CancelReads(s) == cancelPc[s] = "idle" /\ cancelPc'[s] # "idle"

TerminalStatuses == {"SUCCESS", "PARTIAL_SUCCESS", "FAILED", "CANCELLED"}

EmbedderCalled == embedder.pc = "batch" /\ embedder' # embedder

\* C32: a call of the embedder that fails with an error text that
\* _is_api_key_error counts as an auth failure raises APIKeyError at once:
\* no wait is made and the batch is not tried again.
AuthFailureRaisesAtOnce ==
    [][(EmbedderCalled /\ is_api_key_error(embedder'.last_error)) =>
           /\ embedder'.pc = "raised"
           /\ embedder'.exception = "APIKeyError"
           /\ embedder'.sleeps = embedder.sleeps]_vars

\* the exception that ends a batch is the one of the kind of its last error
RaisedByKind ==
    embedder.pc = "raised" =>
        LET error == embedder.last_error
        IN /\ is_rate_limit_error(error) =>
                  embedder.exception = "RateLimitError"
           /\ (~is_rate_limit_error(error) /\ ~is_api_key_error(error)) =>
                  embedder.exception = "EmbeddingError"

\* the number of calls of the embedder for each batch is at most limit, and
\* a batch that has had limit calls is over
AttemptsWithin(limit) ==
    /\ \A b \in DOMAIN embedder.calls : embedder.calls[b] <= limit
    /\ embedder.pc = "batch" =>
           embedder.calls[Len(embedder.calls)] < limit

\* C33 as stated: for each batch the embedder is called at most max_retries
\* times, then the vectors are returned or RateLimitError or EmbeddingError
\* is raised.
AtMostMaxRetriesAttempts ==
    AttemptsWithin(embedder.max_retries) /\ RaisedByKind

\* C33: for each batch the embedder is called at most max_retries + 1 times
\* (one call and max_retries retries), then the vectors are returned or
\* RateLimitError or EmbeddingError is raised.
AtMostMaxRetriesPlusOneAttempts ==
    AttemptsWithin(embedder.max_retries + 1) /\ RaisedByKind

\* a batch was given up after its last retry hit the rate limit
AtMostMaxRetriesPlusOneAttemptsWitness ==
    /\ embedder.pc = "raised"
    /\ embedder.exception = "RateLimitError"
    /\ embedder.max_retries >= 1
    /\ embedder.calls[Len(embedder.calls)] = embedder.max_retries + 1
    /\ Len(embedder.sleeps) >= embedder.max_retries

\* C34: when embed_documents_with_retry returns, it returns one vector for
\* each text, in the order of the texts.
OneVectorPerText ==
    embedder.pc = "returned" =>
        embedder.all_embeddings = [k \in 1 .. embedder.n |-> k]

\* a call of more than one batch has returned after a response of the
\* wrong length was refused
OneVectorPerTextWitness ==
    /\ embedder.pc = "returned"
    /\ embedder.n > BatchSize
    /\ embedder.rejected >= 1

\* ------------------------------------------------- file metadata rows
\* the per-file phase of the ingest of session s completes in this step
FilePhaseCompletes(s) ==
    ~w[s].scanned /\ w'[s].scanned /\ ~w'[s].failed

\* C35: when the per-file phase of an ingest completes, the rows saved are
\* exactly one for each file that the scanner yielded, each with
\* is_processed one of success, skipped, failed, so that the number of rows
\* is total_files.
OneRowPerScannedFile ==
    [][\A s \in Sessions :
         FilePhaseCompletes(s) =>
             /\ Len(w'[s].meta) = Len(repo.files)
             /\ Len(w'[s].meta) = session'[s].total_files
             /\ \A f \in DOMAIN repo.files :
                    Cardinality({k \in DOMAIN w'[s].meta :
                                    w'[s].meta[k].file = f}) = 1
             /\ \A k \in DOMAIN w'[s].meta :
                    w'[s].meta[k].is_processed
                        \in {"success", "skipped", "failed"}]_vars

\* the rows of the batch from row k on that the table accepts, in order
RECURSIVE ValidRowsFrom(_, _)
ValidRowsFrom(batch, k) ==
    IF k > Len(batch) THEN <<>>
    ELSE (IF batch[k] THEN <<MetadataRow(batch, k)>> ELSE <<>>)
             \o ValidRowsFrom(batch, k + 1)

\* C36: when the batched insert fails, the rows are inserted one by one:
\* at the end every row that the table accepts alone is in the table, once,
\* whatever rows before it were refused, and no refused row is left in the
\* session.
MetadataSalvagedOneByOne ==
    (metadata.pc = "done" /\ metadata.batch_failed) =>
        /\ metadata.table = ValidRowsFrom(metadata.batch, 1)
        /\ metadata.pending = <<>>

\* a batch failed, a row was refused alone and a row after it is saved
MetadataSalvagedOneByOneWitness ==
    /\ metadata.pc = "done"
    /\ metadata.batch_failed
    /\ \E j, k \in DOMAIN metadata.batch :
          /\ j < k
          /\ ~metadata.batch[j]
          /\ metadata.batch[k]
          /\ \E r \in DOMAIN metadata.table : metadata.table[r].file = k

\* ------------------------------------------------- progress of a task
\* the values are in 0 .. 100 and none is below the one before it
ProgressInOrder(reported) ==
    /\ \A k \in DOMAIN reported : reported[k] \in 0 .. 100
    /\ \A j, k \in DOMAIN reported : j < k => reported[j] <= reported[k]

Reported100(reported) == \E k \in DOMAIN reported : reported[k] = 100

\* C37: the progress values that a task reports never decrease and stay in
\* 0 .. 100, and 100 is reported only when the session has been set to
\* SUCCESS or PARTIAL_SUCCESS, never by a run that returns False.
ProgressMonotoneTo100 ==
    [][\A s \in Sessions :
         /\ ProgressInOrder(w'[s].progress)
         /\ (~Reported100(w[s].progress) /\ Reported100(w'[s].progress)) =>
                /\ session'[s].exists
                /\ session'[s].status \in {"SUCCESS", "PARTIAL_SUCCESS"}
                /\ w'[s].ret # "false"]_vars

\* C38: _merge_small_documents neither drops nor duplicates a document: each
\* document of the input is held by exactly one document of the output, which
\* is the input document unchanged or one merged document, and the merged
\* counts plus the number of unmerged documents make the number of inputs
MergedHolds(i) ==
    UNION {{<<k, j>> : j \in {j \in DOMAIN merger.merged[k].members :
                                merger.merged[k].members[j] = i}} :
             k \in DOMAIN merger.merged}

MergeKeepsEveryDocument ==
    merger.pc = "returned" =>
        LET documents == merger.documents
            merged == merger.merged
            counted == [k \in DOMAIN merged |->
                          IF merged[k].is_merged THEN merged[k].merged_count
                          ELSE 1]
        IN /\ \A i \in DOMAIN documents : Cardinality(MergedHolds(i)) = 1
           /\ \A k \in DOMAIN merged :
                 \A j \in DOMAIN merged[k].members :
                     merged[k].members[j] \in DOMAIN documents
           /\ \A k \in DOMAIN merged :
                 IF merged[k].is_merged
                 THEN Len(merged[k].members) >= 2
                 ELSE /\ Len(merged[k].members) = 1
                      /\ LET doc == documents[merged[k].members[1]]
                         IN /\ merged[k].size = doc.size
                            /\ merged[k].element_type = doc.element_type
                            /\ merged[k].start_line = doc.start_line
           /\ Sum(counted) = Len(documents)

MergeKeepsEveryDocumentWitness ==
    /\ merger.pc = "returned"
    /\ Len(merger.documents) = 3
    /\ \E k \in DOMAIN merger.merged : merger.merged[k].is_merged
    /\ \E k \in DOMAIN merger.merged : ~merger.merged[k].is_merged

\* C39: the two caches of a QueryService have the same identifiers, the index
\* cached for an identifier was built from the document list cached for it,
\* text by text in its order, no empty list is cached, and every score of a
\* search belongs to a document of the cached list
CachesInStep ==
    /\ DOMAIN bm25_cache.index = DOMAIN bm25_cache.documents
    /\ \A identifier \in DOMAIN bm25_cache.index :
          LET bm25_index == bm25_cache.index[identifier]
              documents == bm25_cache.documents[identifier]
          IN /\ bm25_index.corpus_size = Len(documents)
             /\ bm25_index.corpus =
                   [k \in DOMAIN documents |-> doc_text(documents[k])]
    /\ \A identifier \in DOMAIN bm25_cache.documents :
          bm25_cache.documents[identifier] # <<>>
    /\ bm25_log.last.done =>
          bm25_log.last.scores = Len(bm25_log.last.corpus)

CachesInStepWitness ==
    /\ bm25_log.clears >= 1
    /\ bm25_log.searches >= 2
    /\ DOMAIN bm25_cache.index = {"other"}
    /\ Len(bm25_cache.documents["other"]) = 2
====
